---- MODULE Spec2Model ----
(***************************************************************************)
(* Claim extraction and verification engine of the Financial-Narrative     *)
(* repository (src/consistency_checker.py), the highlighter of             *)
(* src/utils.py and the session state of the application (src/app.py).     *)
(*                                                                         *)
(* Text is a sequence of one-character strings, so that the regular        *)
(* expressions and the substring tests of the code are computed on the     *)
(* characters.  Amounts are integers in hundredths (150.00 is 15000), a    *)
(* consistency score s is the integer 100*s (0.95 is 95), and a quotient   *)
(* is the pair [num, den] of its numerator and denominator.                *)
(***************************************************************************)
EXTENDS Integers, Sequences, FiniteSets, TLC

(***************************************************************************)
(* Characters and strings (str.lower, str.startswith, the `in' operator)   *)
(***************************************************************************)
Digit == {"0","1","2","3","4","5","6","7","8","9"}

digits == <<"0","1","2","3","4","5","6","7","8","9">>

ascii_uppercase ==
    <<"A","B","C","D","E","F","G","H","I","J","K","L","M",
      "N","O","P","Q","R","S","T","U","V","W","X","Y","Z">>

ascii_lowercase ==
    <<"a","b","c","d","e","f","g","h","i","j","k","l","m",
      "n","o","p","q","r","s","t","u","v","w","x","y","z">>

Whitespace == {" "}

LowerChar(c) ==
    IF \E k \in 1..Len(ascii_uppercase) : ascii_uppercase[k] = c
    THEN ascii_lowercase[CHOOSE k \in 1..Len(ascii_uppercase) : ascii_uppercase[k] = c]
    ELSE c

lower(s) == [i \in 1..Len(s) |-> LowerChar(s[i])]

startswith(s, prefix) ==
    /\ Len(prefix) <= Len(s)
    /\ SubSeq(s, 1, Len(prefix)) = prefix

\* sub in s
contains(sub, s) ==
    \E i \in 1..(Len(s) - Len(sub) + 1) : SubSeq(s, i, i + Len(sub) - 1) = sub

\* any(keyword in sentence.lower() for keyword in keywords)
any_keyword(keywords, s) ==
    \E k \in 1..Len(keywords) : contains(keywords[k], lower(s))

(***************************************************************************)
(* Regular expressions.  A matcher anchored at position i returns the      *)
(* position just past the match, or 0 when there is no match at i.         *)
(***************************************************************************)
RECURSIVE DigitsEnd(_, _)
\* \d* at i (greedy)
DigitsEnd(s, i) ==
    IF i <= Len(s) /\ s[i] \in Digit THEN DigitsEnd(s, i + 1) ELSE i

RECURSIVE SpaceEnd(_, _)
\* \s* at i (greedy)
SpaceEnd(s, i) ==
    IF i <= Len(s) /\ s[i] \in Whitespace THEN SpaceEnd(s, i + 1) ELSE i

\* \d+(?:\.\d+)? at i
NumberEnd(s, i) ==
    LET e == DigitsEnd(s, i) IN
    IF e = i THEN 0
    ELSE IF e + 1 <= Len(s) /\ s[e] = "." /\ s[e + 1] \in Digit
         THEN DigitsEnd(s, e + 1)
         ELSE e

\* \$?\d+(?:\.\d+)? at i
price_pattern(s, i) ==
    IF i <= Len(s) /\ s[i] = "$" /\ NumberEnd(s, i + 1) # 0
    THEN NumberEnd(s, i + 1)
    ELSE NumberEnd(s, i)

\* \d+(?:\.\d+)?\s*\% at i
percentage_pattern(s, i) ==
    LET e == NumberEnd(s, i) IN
    IF e = 0 THEN 0
    ELSE LET p == SpaceEnd(s, e) IN
         IF p <= Len(s) /\ s[p] = "%" THEN p + 1 ELSE 0

\* \d{4}-\d{2}-\d{2} at i
date_pattern(s, i) ==
    IF /\ i + 9 <= Len(s)
       /\ \A k \in {0, 1, 2, 3, 5, 6, 8, 9} : s[i + k] \in Digit
       /\ s[i + 4] = "-"
       /\ s[i + 7] = "-"
    THEN i + 10
    ELSE 0

\* pattern.search(s) for the three patterns
price_search(s) == \E i \in 1..Len(s) : price_pattern(s, i) # 0

percentage_search(s) == \E i \in 1..Len(s) : percentage_pattern(s, i) # 0

date_search(s) == \E i \in 1..Len(s) : date_pattern(s, i) # 0

RECURSIVE findall_numbers(_, _)
\* re.findall(r'\$?(\d+(?:\.\d+)?)', s): the captured numbers, left to right
findall_numbers(s, i) ==
    IF i > Len(s) THEN <<>>
    ELSE LET e == price_pattern(s, i) IN
         IF e = 0 THEN findall_numbers(s, i + 1)
         ELSE LET b == IF s[i] = "$" THEN i + 1 ELSE i IN
              <<SubSeq(s, b, e - 1)>> \o findall_numbers(s, e)

RECURSIVE findall_percentages(_, _)
\* re.findall(r'(\d+(?:\.\d+)?)\s*\%', s)
findall_percentages(s, i) ==
    IF i > Len(s) THEN <<>>
    ELSE LET e == percentage_pattern(s, i) IN
         IF e = 0 THEN findall_percentages(s, i + 1)
         ELSE <<SubSeq(s, i, NumberEnd(s, i) - 1)>> \o findall_percentages(s, e)

RECURSIVE findall_dates(_, _)
\* re.findall(r'\d{4}-\d{2}-\d{2}', s)
findall_dates(s, i) ==
    IF i > Len(s) THEN <<>>
    ELSE LET e == date_pattern(s, i) IN
         IF e = 0 THEN findall_dates(s, i + 1)
         ELSE <<SubSeq(s, i, e - 1)>> \o findall_dates(s, e)

DigitValue(c) == (CHOOSE k \in 1..Len(digits) : digits[k] = c) - 1

RECURSIVE IntOf(_)
\* the value of a string of digits
IntOf(t) ==
    IF t = <<>> THEN 0
    ELSE 10 * IntOf(SubSeq(t, 1, Len(t) - 1)) + DigitValue(t[Len(t)])

RECURSIVE Pow10(_)
Pow10(n) == IF n = 0 THEN 1 ELSE 10 * Pow10(n - 1)

\* float(t) for a token of \d+(?:\.\d+)?, as the quotient num/den
float(t) ==
    LET e == DigitsEnd(t, 1) IN
    IF e > Len(t)
    THEN [num |-> IntOf(t), den |-> 1]
    ELSE [num |-> IntOf(SubSeq(t, 1, e - 1) \o SubSeq(t, e + 1, Len(t))),
          den |-> Pow10(Len(t) - e)]

(***************************************************************************)
(* Claim Extractor: extract_factual_claims                                 *)
(***************************************************************************)
trend_keywords ==
    << <<"i","n","c","r","e","a","s","e","d">>,
       <<"d","e","c","r","e","a","s","e","d">>,
       <<"r","i","s","e","n">>,
       <<"f","e","l","l">>,
       <<"g","r","e","w">>,
       <<"d","e","c","l","i","n","e","d">>,
       <<"i","m","p","r","o","v","e","d">>,
       <<"d","e","t","e","r","i","o","r","a","t","e","d">>,
       <<"h","i","g","h","e","r">>,
       <<"l","o","w","e","r">>,
       <<"u","p","w","a","r","d">>,
       <<"d","o","w","n","w","a","r","d">>,
       <<"b","u","l","l","i","s","h">>,
       <<"b","e","a","r","i","s","h">>,
       <<"o","u","t","p","e","r","f","o","r","m","e","d">>,
       <<"u","n","d","e","r","p","e","r","f","o","r","m","e","d">> >>

volatility_keywords ==
    << <<"v","o","l","a","t","i","l","e">>,
       <<"s","t","a","b","i","l","i","t","y">>,
       <<"f","l","u","c","t","u","a","t","i","o","n">>,
       <<"v","a","r","i","a","b","i","l","i","t","y">>,
       <<"d","e","v","i","a","t","i","o","n">> >>

comparison_keywords ==
    << <<"c","o","m","p","a","r","e","d"," ","t","o">>,
       <<"r","e","l","a","t","i","v","e"," ","t","o">>,
       <<"v","e","r","s","u","s">>,
       <<"a","g","a","i","n","s","t">>,
       <<"o","u","t","p","e","r","f","o","r","m","e","d">>,
       <<"u","n","d","e","r","p","e","r","f","o","r","m","e","d">>,
       <<"b","e","t","t","e","r"," ","t","h","a","n">>,
       <<"w","o","r","s","e"," ","t","h","a","n">>,
       <<"h","i","g","h","e","r"," ","t","h","a","n">>,
       <<"l","o","w","e","r"," ","t","h","a","n">> >>

\* claims[:15]
MaxClaims == 15

\* the claim types the extractor assigns
ClaimTypes ==
    {"price_claim", "price_trend_claim", "percentage_claim",
     "percentage_trend_claim", "date_specific_claim", "trend_claim",
     "volatility_claim", "comparison_claim"}

\* sent_tokenize(narrative): the sentences of a narrative.  A narrative is
\* the record of its sentences; tokenizable is FALSE for an input on which
\* the tokenizer raises (None, a non-string, a missing punkt resource).
sent_tokenize(narrative) == narrative.sentences

is_header(sentence) ==
    \/ startswith(sentence, <<"#">>)
    \/ startswith(sentence, <<"#","#">>)
    \/ startswith(sentence, <<"#","#","#">>)

\* variant: the test does not lower the sentence
is_disclaimer_case_sensitive(sentence) ==
    \/ contains(<<"d","i","s","c","l","a","i","m","e","r">>, sentence)
    \/ contains(<<"n","o","t","e",":">>, sentence)

is_disclaimer(sentence) ==
    \/ contains(<<"d","i","s","c","l","a","i","m","e","r">>, lower(sentence))
    \/ contains(<<"n","o","t","e",":">>, lower(sentence))

\* variant: the comparison detector is tried before the trend detector
claim_type_of_comparison_first(sentence) ==
    IF price_search(sentence)
    THEN IF any_keyword(trend_keywords, sentence)
         THEN "price_trend_claim" ELSE "price_claim"
    ELSE IF percentage_search(sentence)
    THEN IF any_keyword(trend_keywords, sentence)
         THEN "percentage_trend_claim" ELSE "percentage_claim"
    ELSE IF date_search(sentence) THEN "date_specific_claim"
    ELSE IF any_keyword(comparison_keywords, sentence) THEN "comparison_claim"
    ELSE IF any_keyword(trend_keywords, sentence) THEN "trend_claim"
    ELSE IF any_keyword(volatility_keywords, sentence) THEN "volatility_claim"
    ELSE ""

\* variant: the percentage and date detectors run before the price detector
claim_type_of_price_last(sentence) ==
    IF percentage_search(sentence)
    THEN IF any_keyword(trend_keywords, sentence)
         THEN "percentage_trend_claim" ELSE "percentage_claim"
    ELSE IF date_search(sentence) THEN "date_specific_claim"
    ELSE IF price_search(sentence)
    THEN IF any_keyword(trend_keywords, sentence)
         THEN "price_trend_claim" ELSE "price_claim"
    ELSE IF any_keyword(trend_keywords, sentence) THEN "trend_claim"
    ELSE IF any_keyword(volatility_keywords, sentence) THEN "volatility_claim"
    ELSE IF any_keyword(comparison_keywords, sentence) THEN "comparison_claim"
    ELSE ""

\* the detectors of one sentence, in the order of the code; "" is no claim
claim_type_of(sentence) ==
    IF price_search(sentence)
    THEN IF any_keyword(trend_keywords, sentence)
         THEN "price_trend_claim" ELSE "price_claim"
    ELSE IF percentage_search(sentence)
    THEN IF any_keyword(trend_keywords, sentence)
         THEN "percentage_trend_claim" ELSE "percentage_claim"
    ELSE IF date_search(sentence) THEN "date_specific_claim"
    ELSE IF any_keyword(trend_keywords, sentence) THEN "trend_claim"
    ELSE IF any_keyword(volatility_keywords, sentence) THEN "volatility_claim"
    ELSE IF any_keyword(comparison_keywords, sentence) THEN "comparison_claim"
    ELSE ""

RECURSIVE claims_of(_)
\* the loop over the sentences: the claims list before truncation
claims_of(sentences) ==
    IF sentences = <<>> THEN <<>>
    ELSE LET sentence == Head(sentences) IN
         IF is_header(sentence) \/ is_disclaimer(sentence)
         THEN claims_of(Tail(sentences))
         ELSE IF claim_type_of(sentence) = ""
         THEN claims_of(Tail(sentences))
         ELSE <<[claim_text |-> sentence, claim_type |-> claim_type_of(sentence)]>>
              \o claims_of(Tail(sentences))

\* variant: no limit on the number of claims
truncate_nothing(seq, n) == seq

\* variant: seq[-n:], the last n claims
truncate_last(seq, n) ==
    SubSeq(seq, IF Len(seq) < n THEN 1 ELSE Len(seq) - n + 1, Len(seq))

\* seq[:n]
truncate(seq, n) == SubSeq(seq, 1, IF Len(seq) < n THEN Len(seq) ELSE n)

\* the try body raises when the tokenizer does
extraction_raises(narrative) == ~narrative.tokenizable

\* variant: the except branch raises again instead of returning []
extract_factual_claims_reraising(narrative) ==
    IF extraction_raises(narrative)
    THEN [raised |-> TRUE, value |-> <<>>]
    ELSE [raised |-> FALSE,
          value |-> truncate(claims_of(sent_tokenize(narrative)), MaxClaims)]

\* extract_factual_claims(narrative): whether the call raises to its caller
\* and the value it returns; the except branch returns []
extract_factual_claims(narrative) ==
    IF extraction_raises(narrative)
    THEN [raised |-> FALSE, value |-> <<>>]
    ELSE [raised |-> FALSE,
          value |-> truncate(claims_of(sent_tokenize(narrative)), MaxClaims)]

(***************************************************************************)
(* The dataset.  A dataset is the set of its column names and the sequence *)
(* of its rows; a row gives Date as <<year, month, day>>, Low, High, Close *)
(* in hundredths, Volume, and the optional columns as cells that may be    *)
(* missing (NaN).  Volatility_20d is in units of 0.0001.                   *)
(***************************************************************************)
Mandatory == {"Date", "Low", "High", "Close", "Volume"}

Optional == {"MA_20", "MA_50", "Volatility_20d"}

NaN == [isna |-> TRUE, v |-> 0]

Value(x) == [isna |-> FALSE, v |-> x]

Row(date, low, high, close, volume, ma20, ma50, vol) ==
    [Date |-> date, Low |-> low, High |-> high, Close |-> close,
     Volume |-> volume, MA_20 |-> ma20, MA_50 |-> ma50, Volatility_20d |-> vol]

RECURSIVE Pad(_, _)
\* the decimal digits of n, zero-padded to width w
Pad(n, w) ==
    IF w = 0 THEN <<>> ELSE Pad(n \div 10, w - 1) \o <<digits[(n % 10) + 1]>>

\* Timestamp.strftime('%Y-%m-%d')
strftime(date) ==
    Pad(date[1], 4) \o <<"-">> \o Pad(date[2], 2) \o <<"-">> \o Pad(date[3], 2)

\* code point of the characters that occur in date strings
ord(c) == IF c = "-" THEN 45 ELSE 48 + DigitValue(c)

RECURSIVE str_le(_, _)
\* a <= b on strings (lexicographic by code point)
str_le(a, b) ==
    IF a = <<>> THEN TRUE
    ELSE IF b = <<>> THEN FALSE
    ELSE IF ord(Head(a)) # ord(Head(b)) THEN ord(Head(a)) < ord(Head(b))
    ELSE str_le(Tail(a), Tail(b))

\* a <= b on timestamps
date_le(a, b) ==
    \/ a[1] < b[1]
    \/ a[1] = b[1] /\ a[2] < b[2]
    \/ a[1] = b[1] /\ a[2] = b[2] /\ a[3] <= b[3]

\* Series.min() and Series.max() over a column of the rows
col_min(rows, col) ==
    CHOOSE x \in {rows[i][col] : i \in 1..Len(rows)} :
        \A y \in {rows[i][col] : i \in 1..Len(rows)} : x <= y

col_max(rows, col) ==
    CHOOSE x \in {rows[i][col] : i \in 1..Len(rows)} :
        \A y \in {rows[i][col] : i \in 1..Len(rows)} : y <= x

date_min(rows) ==
    CHOOSE x \in {rows[i].Date : i \in 1..Len(rows)} :
        \A y \in {rows[i].Date : i \in 1..Len(rows)} : date_le(x, y)

date_max(rows) ==
    CHOOSE x \in {rows[i].Date : i \in 1..Len(rows)} :
        \A y \in {rows[i].Date : i \in 1..Len(rows)} : date_le(y, x)

\* create_financial_summary raises: a mandatory column is absent (KeyError)
\* or the dataset has no row (NaT.strftime)
summary_raises(financial_data) ==
    \/ ~(Mandatory \subseteq financial_data.columns)
    \/ financial_data.rows = <<>>

\* the metrics verify_claim_against_data extracts from the dataset
metrics(financial_data) ==
    LET rows == financial_data.rows
        first_close == rows[1].Close
        last_close == rows[Len(rows)].Close
        last_vol == rows[Len(rows)].Volatility_20d
    IN  [start_date |-> strftime(date_min(rows)),
         end_date |-> strftime(date_max(rows)),
         first_close |-> first_close,
         last_close |-> last_close,
         price_change |-> last_close - first_close,
         price_change_pct |-> [num |-> (last_close - first_close) * 100,
                               den |-> first_close],
         price_min |-> col_min(rows, "Low"),
         price_max |-> col_max(rows, "High"),
         ma_20 |->
             IF {"MA_20", "MA_50"} \subseteq financial_data.columns
                /\ ~rows[Len(rows)].MA_20.isna
             THEN rows[Len(rows)].MA_20 ELSE NaN,
         ma_50 |->
             IF {"MA_20", "MA_50"} \subseteq financial_data.columns
                /\ ~rows[Len(rows)].MA_50.isna
             THEN rows[Len(rows)].MA_50 ELSE NaN,
         volatility |->
             IF "Volatility_20d" \in financial_data.columns /\ ~last_vol.isna
             THEN Value(last_vol.v * 100)
             ELSE NaN]

(***************************************************************************)
(* Claim Verifier: verify_claim_against_data                               *)
(***************************************************************************)
uptrend_words ==
    << <<"i","n","c","r","e","a","s","e">>,
       <<"i","n","c","r","e","a","s","e","d">>,
       <<"r","i","s","e">>,
       <<"r","i","s","e","n">>,
       <<"g","r","e","w">>,
       <<"g","r","o","w","t","h">>,
       <<"u","p","w","a","r","d">>,
       <<"h","i","g","h","e","r">>,
       <<"u","p">>,
       <<"b","u","l","l","i","s","h">> >>

downtrend_words ==
    << <<"d","e","c","r","e","a","s","e">>,
       <<"d","e","c","r","e","a","s","e","d">>,
       <<"f","a","l","l">>,
       <<"f","e","l","l">>,
       <<"d","e","c","l","i","n","e">>,
       <<"d","e","c","l","i","n","e","d">>,
       <<"d","o","w","n","w","a","r","d">>,
       <<"l","o","w","e","r">>,
       <<"d","o","w","n">>,
       <<"b","e","a","r","i","s","h">> >>

high_volatility_words ==
    << <<"h","i","g","h">>,
       <<"s","i","g","n","i","f","i","c","a","n","t">>,
       <<"i","n","c","r","e","a","s","e","d">>,
       <<"s","u","b","s","t","a","n","t","i","a","l">> >>

low_volatility_words ==
    << <<"l","o","w">>,
       <<"d","e","c","r","e","a","s","e","d">>,
       <<"m","i","n","i","m","a","l">>,
       <<"l","i","m","i","t","e","d">>,
       <<"r","e","d","u","c","e","d">> >>

\* 2% daily volatility is considered high; volatility is in units of 0.0001
high_volatility_threshold == 20000

Abs(x) == IF x < 0 THEN -x ELSE x

\* score, verdict and explanation of a result; the explanation is the
\* message template and the token it embeds
Outcome(score, verdict, template, token) ==
    [consistency_score |-> score,
     verification_result |-> verdict,
     explanation |-> [template |-> template, token |-> token]]

default_outcome == Outcome(50, "unverified", "No specific data points found", <<>>)

\* lo10/10 * price_min <= num_value <= hi10/10 * price_max
price_within(num_value, m, lo10, hi10) ==
    /\ m.price_min * lo10 * num_value.den <= num_value.num * 1000
    /\ num_value.num * 1000 <= m.price_max * hi10 * num_value.den

RECURSIVE price_rule_narrow(_, _, _)
\* variant: the second band is [min x 0.8, max x 1.2]
price_rule_narrow(numbers, m, outcome) ==
    IF numbers = <<>> THEN outcome
    ELSE LET number == Head(numbers)
             num_value == float(number)
         IN  IF price_within(num_value, m, 9, 11)
             THEN Outcome(90, "verified", "within the observed price range", number)
             ELSE IF price_within(num_value, m, 8, 12)
             THEN Outcome(70, "partially verified",
                          "outside but close to the observed price range", number)
             ELSE price_rule_narrow(Tail(numbers), m,
                      Outcome(20, "contradicted",
                              "significantly outside the observed price range", number))

\* variant: the else branch breaks too, the first token decides
price_rule_first_token(numbers, m, outcome) ==
    IF numbers = <<>> THEN outcome
    ELSE LET number == Head(numbers)
             num_value == float(number)
         IN  IF price_within(num_value, m, 9, 11)
             THEN Outcome(90, "verified", "within the observed price range", number)
             ELSE IF price_within(num_value, m, 7, 13)
             THEN Outcome(70, "partially verified",
                          "outside but close to the observed price range", number)
             ELSE Outcome(20, "contradicted",
                          "significantly outside the observed price range", number)

RECURSIVE price_rule(_, _, _)
\* for number in extracted_numbers (price_claim, price_trend_claim)
price_rule(numbers, m, outcome) ==
    IF numbers = <<>> THEN outcome
    ELSE LET number == Head(numbers)
             num_value == float(number)
         IN  IF price_within(num_value, m, 9, 11)
             THEN Outcome(90, "verified", "within the observed price range", number)
             ELSE IF price_within(num_value, m, 7, 13)
             THEN Outcome(70, "partially verified",
                          "outside but close to the observed price range", number)
             ELSE price_rule(Tail(numbers), m,
                      Outcome(20, "contradicted",
                              "significantly outside the observed price range", number))

\* variant: abs(pct_value - price_change_pct) <= points, the signed change
pct_within_signed(pct_value, m, points) ==
    Abs(pct_value.num * m.price_change_pct.den
          - m.price_change_pct.num * pct_value.den)
      <= points * pct_value.den * m.price_change_pct.den

\* abs(pct_value - abs(price_change_pct)) <= points
pct_within(pct_value, m, points) ==
    Abs(pct_value.num * m.price_change_pct.den
          - Abs(m.price_change_pct.num) * pct_value.den)
      <= points * pct_value.den * m.price_change_pct.den

RECURSIVE percentage_rule_no_break(_, _, _)
\* variant: the elif branch does not break, a later token can override a
\* 'partially verified' one
percentage_rule_no_break(percentages, m, outcome) ==
    IF percentages = <<>> THEN outcome
    ELSE LET percentage == Head(percentages)
             pct_value == float(percentage)
         IN  IF pct_within(pct_value, m, 2)
             THEN Outcome(95, "verified", "closely matches the observed change", percentage)
             ELSE IF pct_within(pct_value, m, 5)
             THEN percentage_rule_no_break(Tail(percentages), m,
                      Outcome(70, "partially verified",
                              "reasonably close to the observed change", percentage))
             ELSE percentage_rule_no_break(Tail(percentages), m,
                      Outcome(30, "contradicted",
                              "significantly different from the observed change", percentage))

RECURSIVE percentage_rule(_, _, _)
\* for percentage in extracted_percentages (percentage_claim, percentage_trend_claim)
percentage_rule(percentages, m, outcome) ==
    IF percentages = <<>> THEN outcome
    ELSE LET percentage == Head(percentages)
             pct_value == float(percentage)
         IN  IF pct_within(pct_value, m, 2)
             THEN Outcome(95, "verified", "closely matches the observed change", percentage)
             ELSE IF pct_within(pct_value, m, 5)
             THEN Outcome(70, "partially verified",
                          "reasonably close to the observed change", percentage)
             ELSE percentage_rule(Tail(percentages), m,
                      Outcome(30, "contradicted",
                              "significantly different from the observed change", percentage))

RECURSIVE date_rule_exclusive(_, _, _)
\* variant: date > start_date and date < end_date
date_rule_exclusive(dates, m, outcome) ==
    IF dates = <<>> THEN outcome
    ELSE LET date == Head(dates) IN
         IF /\ str_le(m.start_date, date) /\ date # m.start_date
            /\ str_le(date, m.end_date) /\ date # m.end_date
         THEN Outcome(90, "verified", "falls within the analyzed period", date)
         ELSE date_rule_exclusive(Tail(dates), m,
                  Outcome(10, "contradicted", "falls outside the analyzed period", date))

RECURSIVE date_rule(_, _, _)
\* for date in dates_in_claim (date_specific_claim)
date_rule(dates, m, outcome) ==
    IF dates = <<>> THEN outcome
    ELSE LET date == Head(dates) IN
         IF str_le(m.start_date, date) /\ str_le(date, m.end_date)
         THEN Outcome(90, "verified", "falls within the analyzed period", date)
         ELSE date_rule(Tail(dates), m,
                  Outcome(10, "contradicted", "falls outside the analyzed period", date))

\* variant: a claim with keywords of both directions counts as neither
trend_rule_exclusive(claim_text, m) ==
    LET is_uptrend_claim == any_keyword(uptrend_words, claim_text)
        is_downtrend_claim == any_keyword(downtrend_words, claim_text)
        actual_uptrend == m.price_change > 0
    IN  IF \/ is_uptrend_claim /\ ~is_downtrend_claim /\ actual_uptrend
           \/ is_downtrend_claim /\ ~is_uptrend_claim /\ ~actual_uptrend
        THEN Outcome(90, "verified", "trend direction matches", <<>>)
        ELSE Outcome(10, "contradicted", "trend direction contradicts", <<>>)

\* trend_claim
trend_rule(claim_text, m) ==
    LET is_uptrend_claim == any_keyword(uptrend_words, claim_text)
        is_downtrend_claim == any_keyword(downtrend_words, claim_text)
        actual_uptrend == m.price_change > 0
    IN  IF \/ is_uptrend_claim /\ actual_uptrend
           \/ is_downtrend_claim /\ ~actual_uptrend
        THEN Outcome(90, "verified", "trend direction matches", <<>>)
        ELSE Outcome(10, "contradicted", "trend direction contradicts", <<>>)

\* variant: a low-volatility claim needs volatility < threshold
volatility_rule_strict(claim_text, m) ==
    LET is_high_volatility_claim == any_keyword(high_volatility_words, claim_text)
        is_low_volatility_claim == any_keyword(low_volatility_words, claim_text)
        volatility == m.volatility
    IN  IF volatility.isna THEN default_outcome
        ELSE IF \/ is_high_volatility_claim /\ volatility.v >= high_volatility_threshold
                \/ is_low_volatility_claim /\ volatility.v < high_volatility_threshold
        THEN Outcome(90, "verified", "volatility claim is consistent", <<>>)
        ELSE Outcome(20, "contradicted", "volatility claim contradicts", <<>>)

\* volatility_claim
volatility_rule(claim_text, m) ==
    LET is_high_volatility_claim == any_keyword(high_volatility_words, claim_text)
        is_low_volatility_claim == any_keyword(low_volatility_words, claim_text)
        volatility == m.volatility
    IN  IF volatility.isna THEN default_outcome
        ELSE IF \/ is_high_volatility_claim /\ volatility.v > high_volatility_threshold
                \/ is_low_volatility_claim /\ volatility.v <= high_volatility_threshold
        THEN Outcome(90, "verified", "volatility claim is consistent", <<>>)
        ELSE Outcome(20, "contradicted", "volatility claim contradicts", <<>>)

\* variant: a matching sentiment scores 0.5
comparison_rule_half(compound, m) ==
    LET is_positive_claim == compound > 10
        is_negative_claim == compound < -10
        is_positive_actual == m.price_change_pct.num * m.price_change_pct.den > 0
    IN  IF \/ is_positive_claim /\ is_positive_actual
           \/ is_negative_claim /\ ~is_positive_actual
        THEN Outcome(50, "partially verified", "sentiment matches", <<>>)
        ELSE Outcome(30, "partially contradicted", "sentiment contradicts", <<>>)

\* comparison_claim; compound is sia.polarity_scores(claim_text)['compound']
\* in hundredths
comparison_rule(compound, m) ==
    LET is_positive_claim == compound > 10
        is_negative_claim == compound < -10
        is_positive_actual == m.price_change_pct.num * m.price_change_pct.den > 0
    IN  IF \/ is_positive_claim /\ is_positive_actual
           \/ is_negative_claim /\ ~is_positive_actual
        THEN Outcome(70, "partially verified", "sentiment matches", <<>>)
        ELSE Outcome(30, "partially contradicted", "sentiment contradicts", <<>>)

\* variant: the first branch tests claim_type == 'price_claim' only
rule_outcome_price_only(claim, m, compound) ==
    LET claim_text == claim.claim_text
        claim_type == claim.claim_type
    IN  IF claim_type = "price_claim"
        THEN price_rule(findall_numbers(claim_text, 1), m, default_outcome)
        ELSE IF claim_type \in {"percentage_claim", "percentage_trend_claim"}
        THEN percentage_rule(findall_percentages(claim_text, 1), m, default_outcome)
        ELSE IF claim_type = "date_specific_claim"
        THEN date_rule(findall_dates(claim_text, 1), m, default_outcome)
        ELSE IF claim_type = "trend_claim" THEN trend_rule(claim_text, m)
        ELSE IF claim_type = "volatility_claim" THEN volatility_rule(claim_text, m)
        ELSE IF claim_type = "comparison_claim" THEN comparison_rule(compound, m)
        ELSE default_outcome

\* the dispatch on claim_type
rule_outcome(claim, m, compound) ==
    LET claim_text == claim.claim_text
        claim_type == claim.claim_type
    IN  IF claim_type \in {"price_claim", "price_trend_claim"}
        THEN price_rule(findall_numbers(claim_text, 1), m, default_outcome)
        ELSE IF claim_type \in {"percentage_claim", "percentage_trend_claim"}
        THEN percentage_rule(findall_percentages(claim_text, 1), m, default_outcome)
        ELSE IF claim_type = "date_specific_claim"
        THEN date_rule(findall_dates(claim_text, 1), m, default_outcome)
        ELSE IF claim_type = "trend_claim" THEN trend_rule(claim_text, m)
        ELSE IF claim_type = "volatility_claim" THEN volatility_rule(claim_text, m)
        ELSE IF claim_type = "comparison_claim" THEN comparison_rule(compound, m)
        ELSE default_outcome

\* variant: the except branch keeps the default neutral outcome
error_result_as_default(claim) ==
    [claim_text |-> claim.claim_text,
     claim_type |-> claim.claim_type,
     consistency_score |-> 50,
     verification_result |-> "unverified",
     explanation |-> [template |-> "Error during verification", token |-> <<>>]]

\* variant: the except branch marks the error with the score -1.0
error_result_sentinel(claim) ==
    [claim_text |-> claim.claim_text,
     claim_type |-> claim.claim_type,
     consistency_score |-> -100,
     verification_result |-> "error",
     explanation |-> [template |-> "Error during verification", token |-> <<>>]]

\* the except branch: the result of a claim whose verification raised
error_result(claim) ==
    [claim_text |-> claim.claim_text,
     claim_type |-> claim.claim_type,
     consistency_score |-> 0,
     verification_result |-> "error",
     explanation |-> [template |-> "Error during verification", token |-> <<>>]]

\* the try body raises: sia_ok is FALSE when SentimentIntensityAnalyzer()
\* raises (the lexicon cannot be loaded), or the dataset cannot be summarised
verification_raises(financial_data, sia_ok) ==
    ~sia_ok \/ summary_raises(financial_data)

\* create_financial_summary(financial_data) is called (line 169) once the
\* analyzer is constructed: the call derives the statistics of the dataset
summary_called(sia_ok) == sia_ok

NoScore == [called |-> FALSE, compound |-> 0]

\* sia.polarity_scores(claim_text) (line 309) is called for a comparison
\* claim only, and gives the compound score
polarity_scores(claim, financial_data, sia_ok, compound) ==
    IF ~verification_raises(financial_data, sia_ok)
       /\ claim.claim_type = "comparison_claim"
    THEN [called |-> TRUE, compound |-> compound]
    ELSE NoScore

\* verify_claim_against_data(claim, financial_data); compound is the
\* estimator's compound score of the claim text
verify_claim_against_data(claim, financial_data, sia_ok, compound) ==
    IF verification_raises(financial_data, sia_ok)
    THEN error_result(claim)
    ELSE LET o == rule_outcome(claim, metrics(financial_data), compound) IN
         [claim_text |-> claim.claim_text,
          claim_type |-> claim.claim_type,
          consistency_score |-> o.consistency_score,
          verification_result |-> o.verification_result,
          explanation |-> o.explanation]

(***************************************************************************)
(* Report Aggregator (check_narrative_consistency, lines 47-58)            *)
(***************************************************************************)
RECURSIVE sum(_)
\* sum(check['consistency_score'] for check in consistency_checks)
sum(checks) ==
    IF checks = <<>> THEN 0 ELSE Head(checks).consistency_score + sum(Tail(checks))

\* variant: the sum of the scores is not divided by their number
overall_score_of_undivided(checks) ==
    IF checks # <<>>
    THEN [num |-> sum(checks), den |-> 1]
    ELSE [num |-> 0, den |-> 1]

\* the overall score, in hundredths, as a quotient
overall_score_of(checks) ==
    IF checks # <<>>
    THEN [num |-> sum(checks), den |-> Len(checks)]
    ELSE [num |-> 0, den |-> 1]

\* variant: checked_claims counts only the results that are not errors
report_of_counting_verified(checks) ==
    [overall_score |-> overall_score_of(checks),
     checked_claims |->
         Cardinality({i \in 1..Len(checks) : checks[i].verification_result # "error"}),
     claim_checks |-> checks]

report_of(checks) ==
    [overall_score |-> overall_score_of(checks),
     checked_claims |-> Len(checks),
     claim_checks |-> checks]

\* the Python None
None == [none |-> TRUE]

\* variant: a report without overall_score counts as fully consistent
compute_consistency_score_default_one(report) ==
    IF report = None \/ DOMAIN report = {} \/ "overall_score" \notin DOMAIN report
    THEN [num |-> 100, den |-> 1]
    ELSE report.overall_score

\* compute_consistency_score(consistency_report); a report is a dict, that is
\* a function of its keys, and <<>> is the empty dict
compute_consistency_score(report) ==
    IF report = None \/ DOMAIN report = {} \/ "overall_score" \notin DOMAIN report
    THEN [num |-> 0, den |-> 1]
    ELSE report.overall_score

(***************************************************************************)
(* Highlighter: highlight_inconsistencies (src/utils.py)                   *)
(***************************************************************************)
\* dict.get(key, default)
get(d, key, default) == IF key \in DOMAIN d THEN d[key] ELSE default

\* str.find(sub): the first position of sub in s, 0 when there is none
find(s, sub) ==
    LET at == {i \in 1..(Len(s) - Len(sub) + 1) : SubSeq(s, i, i + Len(sub) - 1) = sub}
    IN  IF at = {} THEN 0 ELSE CHOOSE i \in at : \A j \in at : i <= j

RECURSIVE replace(_, _, _)
\* str.replace(old, new) for a non-empty old: every non-overlapping
\* occurrence, leftmost first
replace(s, old, new) ==
    LET i == find(s, old) IN
    IF i = 0 THEN s
    ELSE SubSeq(s, 1, i - 1) \o new
         \o replace(SubSeq(s, i + Len(old), Len(s)), old, new)

RECURSIVE insort(_, _)
\* the place of claim in a list sorted by score: before the first claim
\* whose score is not lower
insort(claim, claims) ==
    IF claims = <<>> THEN <<claim>>
    ELSE IF get(claim, "consistency_score", 100)
              <= get(Head(claims), "consistency_score", 100)
    THEN <<claim>> \o claims
    ELSE <<Head(claims)>> \o insort(claim, Tail(claims))

RECURSIVE sorted(_)
\* sorted(claim_checks, key=lambda x: x.get('consistency_score', 1.0)):
\* lowest score first, stable
sorted(claims) ==
    IF claims = <<>> THEN <<>> ELSE insort(Head(claims), sorted(Tail(claims)))

Red == <<"#","F","F","C","C","C","C">>
Yellow == <<"#","F","F","F","F","C","C">>
Green == <<"#","C","C","F","F","C","C">>

\* variant: the bounds are tested with <=
get_highlight_color_inclusive(score) ==
    IF score <= 50 THEN Red
    ELSE IF score <= 75 THEN Yellow
    ELSE Green

get_highlight_color(score) ==
    IF score < 50 THEN Red
    ELSE IF score < 75 THEN Yellow
    ELSE Green

\* f"{score:.2f}" for a score in hundredths
format_2f(score) == Pad(score \div 100, 1) \o <<".">> \o Pad(score % 100, 2)

\* if claim_text and score < 0.9
is_highlighted(claim) ==
    /\ get(claim, "claim_text", <<>>) # <<>>
    /\ get(claim, "consistency_score", 100) < 90

\* the span that replaces the claim text
highlighted_claim(claim) ==
    LET claim_text == get(claim, "claim_text", <<>>)
        score == get(claim, "consistency_score", 100)
        verification == get(claim, "verification_result", <<>>)
        explanation == get(claim, "explanation", <<>>)
        tooltip == <<"S","c","o","r","e",":"," ">> \o format_2f(score)
                   \o <<","," ","R","e","s","u","l","t",":"," ">> \o verification
                   \o <<","," ","E","x","p","l","a","n","a","t","i","o","n",":"," ">> \o explanation
    IN  <<"<","s","p","a","n"," ","t","i","t","l","e","=","\"">> \o tooltip
        \o <<"\""," ","s","t","y","l","e","=","\"","b","a","c","k","g","r","o","u","n","d","-","c","o","l","o","r",":"," ">> \o get_highlight_color(score)
        \o <<";","\"",">">> \o claim_text \o <<"<","/","s","p","a","n",">">>

RECURSIVE highlight_loop(_, _)
\* for claim in sorted_claims
highlight_loop(claims, highlighted_narrative) ==
    IF claims = <<>> THEN highlighted_narrative
    ELSE highlight_loop(Tail(claims),
             IF is_highlighted(Head(claims))
             THEN replace(highlighted_narrative, Head(claims).claim_text,
                          highlighted_claim(Head(claims)))
             ELSE highlighted_narrative)

\* the claims whose text the loop replaces, in the order of the loop
replaced_claims(consistency_report) ==
    IF consistency_report = None \/ DOMAIN consistency_report = {}
       \/ "claim_checks" \notin DOMAIN consistency_report
    THEN <<>>
    ELSE SelectSeq(sorted(consistency_report.claim_checks), is_highlighted)

highlight_inconsistencies(narrative, consistency_report) ==
    IF consistency_report = None \/ DOMAIN consistency_report = {}
       \/ "claim_checks" \notin DOMAIN consistency_report
    THEN narrative
    ELSE <<"<","p",">">>
         \o highlight_loop(sorted(consistency_report.claim_checks), narrative)
         \o <<"<","/","p",">">>

(***************************************************************************)
(* Application (src/app.py): the session state, the Generate Narrative     *)
(* button handler and the Consistency Analysis tab                         *)
(***************************************************************************)
\* session state initialisation (lines 34-43)
initial_session_state ==
    [financial_data |-> None,
     generated_narrative |-> None,
     consistency_report |-> None,
     consistency_score |-> None]

\* is_financial_data (lines 171-175)
is_financial_data(financial_data) ==
    {"Open", "High", "Low", "Close", "Volume"} \subseteq financial_data.columns

\* check_narrative_consistency(narrative, financial_data) as one call: the
\* report and the score it returns
check_narrative_consistency(narrative, financial_data, sia_ok, compound) ==
    LET claims == extract_factual_claims(narrative).value
        checks == [i \in 1..Len(claims) |->
                      verify_claim_against_data(claims[i], financial_data,
                                                sia_ok, compound)]
    IN  [consistency_report |-> report_of(checks),
         consistency_score |-> overall_score_of(checks)]

\* the outcome of generate_financial_narrative, or of building the sections
\* of the data narrative, when it raises
Raises == [raises |-> TRUE]

\* variant: the handler checks the narrative of a non-financial dataset too
generate_narrative_always_checking(session, generated, sia_ok, compound) ==
    IF generated = Raises
    THEN [session_state |-> session,
          generation |-> [is_financial_data |-> is_financial_data(session.financial_data),
                          invoked_checker |-> FALSE, completed |-> FALSE]]
    ELSE LET r == check_narrative_consistency(generated, session.financial_data,
                                              sia_ok, compound)
         IN  [session_state |->
                  [session EXCEPT !.generated_narrative = generated,
                                  !.consistency_report = r.consistency_report,
                                  !.consistency_score = r.consistency_score],
              generation |-> [is_financial_data |-> is_financial_data(session.financial_data),
                              invoked_checker |-> TRUE, completed |-> TRUE]]

\* the Generate Narrative button handler (lines 182-323): the session state
\* it leaves, and what the run did
generate_narrative(session, generated, sia_ok, compound) ==
    IF is_financial_data(session.financial_data)
    THEN IF generated = Raises
         THEN [session_state |-> session,
               generation |-> [is_financial_data |-> TRUE,
                               invoked_checker |-> FALSE, completed |-> FALSE]]
         ELSE LET r == check_narrative_consistency(generated, session.financial_data,
                                                   sia_ok, compound)
              IN  [session_state |->
                       [session EXCEPT !.generated_narrative = generated,
                                       !.consistency_report = r.consistency_report,
                                       !.consistency_score = r.consistency_score],
                   generation |-> [is_financial_data |-> TRUE,
                                   invoked_checker |-> TRUE, completed |-> TRUE]]
    ELSE IF generated = Raises
         THEN [session_state |-> session,
               generation |-> [is_financial_data |-> FALSE,
                               invoked_checker |-> FALSE, completed |-> FALSE]]
         ELSE [session_state |->
                   [session EXCEPT !.generated_narrative = generated,
                                   !.consistency_report =
                                       [overall_score |-> [num |-> 95, den |-> 1],
                                        checked_claims |-> 0,
                                        claim_checks |-> <<>>],
                                   !.consistency_score = [num |-> 95, den |-> 1]],
               generation |-> [is_financial_data |-> FALSE,
                               invoked_checker |-> FALSE, completed |-> TRUE]]

\* variant: the tab tests `is not None' on the report and the score
consistency_tab_not_none(session) ==
    IF session.financial_data = None THEN None
    ELSE IF /\ session.consistency_report # None
            /\ session.consistency_score # None
    THEN [shown |-> "analysis",
          gauge |-> session.consistency_score,
          json |-> session.consistency_report]
    ELSE [shown |-> "info"]

\* the Consistency Analysis tab (lines 121, 362-404): the truth value of a
\* dict is that it is not empty, of a float that it is not 0.0
consistency_tab(session) ==
    IF session.financial_data = None THEN None
    ELSE IF /\ session.consistency_report # None
            /\ DOMAIN session.consistency_report # {}
            /\ session.consistency_score # None
            /\ session.consistency_score.num # 0
    THEN [shown |-> "analysis",
          gauge |-> session.consistency_score,
          json |-> session.consistency_report]
    ELSE [shown |-> "info"]

(***************************************************************************)
(* Inputs                                                                  *)
(***************************************************************************)
S_header == <<"#"," ","U","p"," ","$","5">>
S_note == <<"N","O","T","E",":"," ","f","e","l","l"," ","5","%">>
S_disclaimer == <<"D","i","s","c","l","a","i","m","e","r",":"," ","9">>
S_price == <<"C","l","o","s","e"," ","$","1","5","0",".","0","0">>
S_price_trend == <<"I","t"," ","g","r","e","w"," ","1","2","%">>
S_date == <<"O","n"," ","2","0","2","2","-","0","6","-","1","5">>
S_down == <<"I","t"," ","f","e","l","l">>
S_up == <<"M","o","v","e","d"," ","h","i","g","h","e","r">>
S_outperformed == <<"I","t"," ","o","u","t","p","e","r","f","o","r","m","e","d">>
S_volatility == <<"h","i","g","h"," ","f","l","u","c","t","u","a","t","i","o","n">>
S_comparison == <<"b","e","t","t","e","r"," ","t","h","a","n"," ","X">>
S_plain == <<"H","e","l","l","o">>

Sentences ==
    {S_header, S_note, S_disclaimer, S_price, S_price_trend, S_date,
     S_down, S_up, S_outperformed, S_volatility, S_comparison, S_plain}

\* longest narrative, in sentences, of a call of check_narrative_consistency
MaxSentences == 2

\* length, in sentences, of the long narratives given to extract_factual_claims
MaxLong == 17

\* narrative = None: sent_tokenize raises
NoneNarrative == [tokenizable |-> FALSE, sentences |-> <<>>]

\* sentences of the narratives given to check_narrative_consistency
CallSentences ==
    {S_header, S_note, S_price, S_down, S_outperformed, S_volatility,
     S_comparison, S_plain}

\* narratives whose sentences hold percentage and ISO date tokens
TokenNarratives ==
    {<<S_price_trend>>, <<S_date>>, <<S_price_trend, S_date>>, <<S_date, S_down>>}

Narratives ==
    {[tokenizable |-> TRUE, sentences |-> s] :
        s \in UNION {[1..k -> CallSentences] : k \in 0..MaxSentences}
              \cup TokenNarratives}
    \cup {NoneNarrative}

LongSentences == {S_header, S_price, S_down, S_plain}

\* one sentence c, then k sentences a, then sentences b up to MaxLong
LongNarratives ==
    {[tokenizable |-> TRUE,
      sentences |-> [i \in 1..MaxLong |->
                        IF i = 1 THEN c ELSE IF i <= k + 1 THEN a ELSE b]] :
        c \in LongSentences, a \in LongSentences, b \in LongSentences,
        k \in 0..(MaxLong - 1)}

\* narratives given to extract_factual_claims by a direct caller
ExtractNarratives ==
    LongNarratives
    \cup {[tokenizable |-> TRUE, sentences |-> <<s>>] : s \in Sentences}
    \cup {NoneNarrative}

RowsUp ==
    << Row(<<2022, 1, 3>>, 14000, 14500, 14200, 1000, NaN, NaN, NaN),
       Row(<<2022, 12, 30>>, 15000, 16000, 15500, 2000,
           Value(15000), Value(14800), Value(250)) >>

RowsDown ==
    << Row(<<2022, 1, 3>>, 15000, 16000, 15500, 2000,
           Value(15000), Value(14800), Value(150)),
       Row(<<2022, 12, 30>>, 14000, 14500, 14200, 1000, NaN, NaN, NaN) >>

RowSets == {RowsUp, RowsDown, <<>>}

ColumnSets == {Mandatory \cup Optional, Mandatory, Mandatory \ {"Volume"}}

\* Close is positive in every row: price_change_pct divides by first_close
Datasets == {[columns |-> c, rows |-> r] : c \in ColumnSets, r \in RowSets}

\* compound scores of the sentiment estimator, in hundredths
Compounds == {-44, 0, 44}

\* further claim texts given to verify_claim_against_data by a direct caller
S_price_near == <<"C","l","o","s","e"," ","$","1","0","0">>
S_price_far == <<"C","l","o","s","e"," ","$","3","0","0">>
S_pct_match == <<"U","p"," ","9","%">>
S_pct_far == <<"U","p"," ","3","0","%">>
S_date_start == <<"O","n"," ","2","0","2","2","-","0","1","-","0","3">>
S_date_end == <<"O","n"," ","2","0","2","2","-","1","2","-","3","0">>
S_date_out == <<"O","n"," ","2","0","2","3","-","0","1","-","0","1">>
S_low_volatility == <<"l","o","w"," ","f","l","u","c","t","u","a","t","i","o","n">>
S_fluctuation == <<"S","o","m","e"," ","d","e","v","i","a","t","i","o","n">>

\* claim texts with several tokens, and one with keywords of both directions
S_far_then_match == <<"$","3","0","0"," ","o","r"," ","$","1","5","0">>
S_near_then_match == <<"$","1","0","0"," ","o","r"," ","$","1","5","0">>
S_match_then_far == <<"$","1","5","0"," ","o","r"," ","$","3","0","0">>
S_far_then_far == <<"$","3","0","0"," ","o","r"," ","$","4","0","0">>
S_pct_far_then_match == <<"3","0","%"," ","o","r"," ","9","%">>
S_pct_near_then_match == <<"1","3","%"," ","o","r"," ","9","%">>
S_date_out_then_in == <<"2","0","2","3","-","0","1","-","0","1"," ","o","r"," ","2","0","2","2","-","0","6","-","1","5">>
S_both_directions == <<"r","i","s","e"," ","a","n","d"," ","f","a","l","l">>

DirectSentences ==
    Sentences \cup
    {S_price_near, S_price_far, S_pct_match, S_pct_far, S_date_start,
     S_date_end, S_date_out, S_low_volatility, S_fluctuation,
     S_far_then_match, S_near_then_match, S_match_then_far, S_far_then_far,
     S_pct_far_then_match, S_pct_near_then_match, S_date_out_then_in,
     S_both_directions}

\* first and last Close equal; the last volatility is exactly 2%
RowsFlat ==
    << Row(<<2022, 1, 3>>, 14000, 15500, 15000, 1000, NaN, NaN, NaN),
       Row(<<2022, 12, 30>>, 14500, 16000, 15000, 2000,
           Value(15000), Value(14800), Value(200)) >>

\* datasets given to verify_claim_against_data by a direct caller
DirectDatasets ==
    Datasets \cup
    {[columns |-> c, rows |-> RowsFlat] : c \in {Mandatory \cup Optional, Mandatory}}

\* reports given to compute_consistency_score by a direct caller: None, the
\* empty dict, a dict without overall_score, the fixed report the application
\* stores for a non-financial dataset (src/app.py lines 314-320), and reports
\* of check_narrative_consistency
ComputeReports ==
    {None, <<>>,
     [checked_claims |-> 0, claim_checks |-> <<>>],
     [overall_score |-> [num |-> 95, den |-> 1], checked_claims |-> 0,
      claim_checks |-> <<>>],
     report_of(<<>>)}
    \cup {report_of(<<verify_claim_against_data(
                         [claim_text |-> t, claim_type |-> claim_type_of(t)],
                         d, TRUE, 0)>>) :
              t \in {S_price, S_down}, d \in Datasets}

\* the narrative text given to highlight_inconsistencies, and claim texts:
\* two of its sentences, a part of the first one, and the empty text
HighlightNarrative == <<"I","t"," ","f","e","l","l","."," ","U","p"," ","9","%",".">>
T_fell == <<"I","t"," ","f","e","l","l",".">>
T_up == <<"U","p"," ","9","%",".">>
T_part == <<"f","e","l","l">>

\* scores of the claims of a report: the bounds 0.5, 0.75 and 0.9 of the
\* highlighter and the values next to them
HighlightScores == {20, 49, 50, 74, 75, 89, 90, 95}

HighlightClaims ==
    {[claim_text |-> t, consistency_score |-> sc,
      verification_result |-> <<"c","h","e","c","k","e","d">>, explanation |-> <<"n","o","n","e">>] :
        t \in {T_fell, T_up, T_part, <<>>}, sc \in HighlightScores}
    \cup {[claim_text |-> T_up], [consistency_score |-> 20]}

\* reports given to highlight_inconsistencies: None, the empty dict, a dict
\* without claim_checks, and reports of no, one or two claims
HighlightReports ==
    {None, <<>>, [overall_score |-> [num |-> 95, den |-> 1], checked_claims |-> 0]}
    \cup {[claim_checks |-> checks] :
              checks \in {<<>>} \cup {<<a>> : a \in HighlightClaims}
                        \cup {<<a, b>> : a, b \in HighlightClaims}}

\* datasets loaded into the application: two with the columns of price data,
\* one of them without Date, and one of another kind
AppDatasets ==
    {[columns |-> Mandatory \cup Optional \cup {"Open"}, rows |-> RowsUp],
     [columns |-> (Mandatory \ {"Date"}) \cup {"Open"}, rows |-> RowsUp],
     [columns |-> {"Date", "Region", "Sales"}, rows |-> RowsUp]}

\* what the narrative generator gives the handler: a narrative, or an
\* exception
AppNarratives ==
    {[tokenizable |-> TRUE, sentences |-> s] :
        s \in {<<S_plain>>, <<S_down>>, <<S_price, S_down>>}}
    \cup {Raises}

\* compound scores at a direct call: the thresholds 0.1 and -0.1 included
DirectCompounds == Compounds \cup {-10, 10}

\* claims given to verify_claim_against_data by a direct caller
DirectClaims ==
    {[claim_text |-> s, claim_type |-> t] :
        s \in DirectSentences, t \in ClaimTypes \cup {"other_claim"}}

(***************************************************************************)
(* The module as a state machine: a caller invokes                         *)
(* check_narrative_consistency, extract_factual_claims or                  *)
(* verify_claim_against_data, and takes the result.                        *)
(***************************************************************************)
VARIABLES
    pc,                  \* position of the current call
    narrative,           \* argument: the narrative
    financial_data,      \* argument: the dataset
    factual_claims,      \* the extracted claims
    consistency_checks,  \* the verification results so far
    raised,              \* per result: did the try body of the verifier raise
    polarity,            \* per result: the compound score the estimator gave
    summaries,           \* derivations of the dataset statistics in this call
    consistency_report,  \* returned report
    consistency_score,   \* returned score
    highlighted_narrative, \* result of highlight_inconsistencies
    replaced,            \* the claims whose text the highlighter replaced
    session_state,       \* st.session_state of the application
    tab3,                \* what the Consistency Analysis tab shows
    generation           \* the last run of the Generate Narrative handler

vars == <<pc, narrative, financial_data, factual_claims, consistency_checks,
          raised, polarity, summaries, consistency_report, consistency_score,
          highlighted_narrative, replaced, session_state, tab3, generation>>

\* the variables of the highlighter and of the application
highlighter_vars == <<highlighted_narrative, replaced>>

app_vars == <<session_state, tab3, generation>>

Init ==
    /\ pc = "idle"
    /\ narrative = None
    /\ financial_data = None
    /\ factual_claims = <<>>
    /\ consistency_checks = <<>>
    /\ raised = <<>>
    /\ polarity = <<>>
    /\ summaries = 0
    /\ consistency_report = None
    /\ consistency_score = None
    /\ highlighted_narrative = None
    /\ replaced = <<>>
    /\ session_state = None
    /\ tab3 = None
    /\ generation = None

\* the caller invokes check_narrative_consistency(narrative, financial_data)
Call(n, d) ==
    /\ pc = "idle"
    /\ pc' = "extract"
    /\ narrative' = n
    /\ financial_data' = d
    /\ UNCHANGED <<factual_claims, consistency_checks, raised, polarity,
                   summaries, consistency_report, consistency_score>>
    /\ UNCHANGED <<highlighter_vars, app_vars>>

\* factual_claims = extract_factual_claims(narrative); an exception goes to
\* the except branch of check_narrative_consistency, which raises
ExtractClaims ==
    /\ pc = "extract"
    /\ LET r == extract_factual_claims(narrative) IN
       /\ factual_claims' = r.value
       /\ pc' = IF r.raised THEN "raised" ELSE "verify"
    /\ UNCHANGED <<narrative, financial_data, consistency_checks, raised,
                   polarity, summaries, consistency_report, consistency_score>>
    /\ UNCHANGED <<highlighter_vars, app_vars>>

\* variant: the verifier writes its result into the claim it was given
VerifyClaim_updating_claim(sia_ok, compound) ==
    /\ pc = "verify"
    /\ Len(consistency_checks) < Len(factual_claims)
    /\ LET k == Len(consistency_checks) + 1
           result == verify_claim_against_data(factual_claims[k], financial_data,
                                               sia_ok, compound)
       IN  /\ consistency_checks' = Append(consistency_checks, result)
           /\ factual_claims' = [factual_claims EXCEPT ![k] = result]
           /\ polarity' = Append(polarity,
                   polarity_scores(factual_claims[k], financial_data, sia_ok, compound))
    /\ raised' = Append(raised, verification_raises(financial_data, sia_ok))
    /\ summaries' = IF summary_called(sia_ok) THEN summaries + 1 ELSE summaries
    /\ UNCHANGED <<pc, narrative, financial_data, consistency_report,
                   consistency_score>>
    /\ UNCHANGED <<highlighter_vars, app_vars>>

\* one iteration of `for claim in factual_claims'
VerifyClaim(sia_ok, compound) ==
    /\ pc = "verify"
    /\ Len(consistency_checks) < Len(factual_claims)
    /\ LET claim == factual_claims[Len(consistency_checks) + 1] IN
       consistency_checks' =
           Append(consistency_checks,
                  verify_claim_against_data(claim, financial_data, sia_ok, compound))
    /\ raised' = Append(raised, verification_raises(financial_data, sia_ok))
    /\ LET claim == factual_claims[Len(consistency_checks) + 1] IN
       polarity' =
           Append(polarity, polarity_scores(claim, financial_data, sia_ok, compound))
    /\ summaries' = IF summary_called(sia_ok) THEN summaries + 1 ELSE summaries
    /\ UNCHANGED <<pc, narrative, financial_data, factual_claims,
                   consistency_report, consistency_score>>
    /\ UNCHANGED <<highlighter_vars, app_vars>>

\* the loop is over: compute the score, build the report and return both
Aggregate ==
    /\ pc = "verify"
    /\ Len(consistency_checks) = Len(factual_claims)
    /\ consistency_score' = overall_score_of(consistency_checks)
    /\ consistency_report' = report_of(consistency_checks)
    /\ pc' = "returned"
    /\ UNCHANGED <<narrative, financial_data, factual_claims,
                   consistency_checks, raised, polarity, summaries>>
    /\ UNCHANGED <<highlighter_vars, app_vars>>

\* a caller invokes extract_factual_claims(narrative) alone
CallExtract(n) ==
    /\ pc = "idle"
    /\ narrative' = n
    /\ LET r == extract_factual_claims(n) IN
       /\ factual_claims' = r.value
       /\ pc' = IF r.raised THEN "raised" ELSE "extracted"
    /\ UNCHANGED <<financial_data, consistency_checks, raised, polarity,
                   summaries, consistency_report, consistency_score>>
    /\ UNCHANGED <<highlighter_vars, app_vars>>

\* a caller invokes verify_claim_against_data(claim, financial_data) alone
CallVerify(claim, d, sia_ok, compound) ==
    /\ pc = "idle"
    /\ pc' = "verified"
    /\ financial_data' = d
    /\ factual_claims' = <<claim>>
    /\ consistency_checks' = <<verify_claim_against_data(claim, d, sia_ok, compound)>>
    /\ raised' = <<verification_raises(d, sia_ok)>>
    /\ polarity' = <<polarity_scores(claim, d, sia_ok, compound)>>
    /\ summaries' = IF summary_called(sia_ok) THEN 1 ELSE 0
    /\ UNCHANGED <<narrative, consistency_report, consistency_score>>
    /\ UNCHANGED <<highlighter_vars, app_vars>>

\* a caller invokes compute_consistency_score(report) alone
CallCompute(report) ==
    /\ pc = "idle"
    /\ pc' = "computed"
    /\ consistency_report' = report
    /\ consistency_score' = compute_consistency_score(report)
    /\ UNCHANGED <<narrative, financial_data, factual_claims, consistency_checks,
                   raised, polarity, summaries>>
    /\ UNCHANGED <<highlighter_vars, app_vars>>

\* a caller invokes highlight_inconsistencies(narrative, consistency_report)
CallHighlight(text, report) ==
    /\ pc = "idle"
    /\ pc' = "highlighted"
    /\ narrative' = text
    /\ consistency_report' = report
    /\ highlighted_narrative' = highlight_inconsistencies(text, report)
    /\ replaced' = replaced_claims(report)
    /\ UNCHANGED <<financial_data, factual_claims, consistency_checks, raised,
                   polarity, summaries, consistency_score>>
    /\ UNCHANGED app_vars

\* a user opens the application: the session state is initialised
StartSession ==
    /\ pc = "idle"
    /\ pc' = "app"
    /\ session_state' = initial_session_state
    /\ tab3' = consistency_tab(initial_session_state)
    /\ generation' = None
    /\ UNCHANGED <<narrative, financial_data, factual_claims, consistency_checks,
                   raised, polarity, summaries, consistency_report,
                   consistency_score, highlighter_vars>>

\* the user loads a dataset from the sidebar; the script is rerun
LoadData(d) ==
    /\ pc = "app"
    /\ session_state' = [session_state EXCEPT !.financial_data = d]
    /\ tab3' = consistency_tab(session_state')
    /\ UNCHANGED <<pc, narrative, financial_data, factual_claims,
                   consistency_checks, raised, polarity, summaries,
                   consistency_report, consistency_score, highlighter_vars,
                   generation>>

\* the user presses Generate Narrative; the script is rerun, so the tabs
\* are rendered from the session state the handler leaves
GenerateNarrative(generated, sia_ok, compound) ==
    /\ pc = "app"
    /\ session_state.financial_data # None
    /\ LET g == generate_narrative(session_state, generated, sia_ok, compound) IN
       /\ session_state' = g.session_state
       /\ generation' = g.generation
    /\ tab3' = consistency_tab(session_state')
    /\ UNCHANGED <<pc, narrative, financial_data, factual_claims,
                   consistency_checks, raised, polarity, summaries,
                   consistency_report, consistency_score, highlighter_vars>>

\* the session ends
EndSession ==
    /\ pc = "app"
    /\ pc' = "idle"
    /\ session_state' = None
    /\ tab3' = None
    /\ generation' = None
    /\ UNCHANGED <<narrative, financial_data, factual_claims, consistency_checks,
                   raised, polarity, summaries, consistency_report,
                   consistency_score, highlighter_vars>>

\* the caller has taken the result; nothing of the call is retained
Return ==
    /\ pc \in {"returned", "extracted", "verified", "computed", "highlighted",
               "raised"}
    /\ pc' = "idle"
    /\ narrative' = None
    /\ financial_data' = None
    /\ factual_claims' = <<>>
    /\ consistency_checks' = <<>>
    /\ raised' = <<>>
    /\ polarity' = <<>>
    /\ summaries' = 0
    /\ consistency_report' = None
    /\ consistency_score' = None
    /\ highlighted_narrative' = None
    /\ replaced' = <<>>
    /\ UNCHANGED app_vars

Next ==
    \/ \E n \in Narratives, d \in Datasets : Call(n, d)
    \/ ExtractClaims
    \/ \E sia_ok \in BOOLEAN, compound \in Compounds : VerifyClaim(sia_ok, compound)
    \/ Aggregate
    \/ \E n \in ExtractNarratives : CallExtract(n)
    \/ \E c \in DirectClaims, d \in DirectDatasets, sia_ok \in BOOLEAN,
          compound \in DirectCompounds : CallVerify(c, d, sia_ok, compound)
    \/ \E report \in ComputeReports : CallCompute(report)
    \/ \E report \in HighlightReports : CallHighlight(HighlightNarrative, report)
    \/ StartSession
    \/ \E d \in AppDatasets : LoadData(d)
    \/ \E generated \in AppNarratives, sia_ok \in BOOLEAN, compound \in Compounds :
          GenerateNarrative(generated, sia_ok, compound)
    \/ EndSession
    \/ Return

Spec == Init /\ [][Next]_vars

(***************************************************************************)
(* Properties                                                              *)
(***************************************************************************)
Verdicts ==
    {"verified", "partially verified", "contradicted", "partially contradicted",
     "unverified", "error"}

\* the call has passed the extraction of the claims of its narrative
Extracted == pc \in {"extracted", "verify", "returned"}

\* total of the scores of a sequence of results
TotalScore(checks) ==
    LET t[i \in 0..Len(checks)] ==
            IF i = 0 THEN 0 ELSE t[i - 1] + checks[i].consistency_score
    IN  t[Len(checks)]

\* C1: in every returned report overall_score is the arithmetic mean of the
\* consistency_score of the entries of claim_checks, and 0.0 when claim_checks
\* is empty
C1_OverallScoreIsMean ==
    pc = "returned" =>
        LET checks == consistency_report.claim_checks
            score == consistency_report.overall_score
        IN  /\ score.den > 0
            /\ IF checks = <<>>
               THEN score.num = 0
               ELSE score.num * Len(checks) = TotalScore(checks) * score.den

C1_Witness ==
    /\ pc = "returned"
    /\ Len(consistency_report.claim_checks) >= 2
    /\ consistency_report.claim_checks[1].consistency_score
         # consistency_report.claim_checks[2].consistency_score

\* C2: when the dataset lacks a mandatory column, check_narrative_consistency
\* performs no per-claim verification and returns no report
C2_MissingColumnFailsHard ==
    (pc \in {"verify", "returned"} /\ ~(Mandatory \subseteq financial_data.columns))
        => (pc # "returned" /\ consistency_checks = <<>>)

\* C3: a verification whose try body raises gives the result score 0.0 and
\* verdict error for that claim, the other claims are still verified, and the
\* report has one result for every extracted claim
C3_ExceptionBecomesErrorResult ==
    /\ Len(raised) = Len(consistency_checks)
    /\ \A i \in 1..Len(consistency_checks) :
          raised[i] <=> (/\ consistency_checks[i].consistency_score = 0
                         /\ consistency_checks[i].verification_result = "error")
    /\ pc = "returned" =>
          Len(consistency_report.claim_checks) = Len(factual_claims)

C3_Witness ==
    /\ pc = "returned"
    /\ \E i, j \in 1..Len(consistency_report.claim_checks) :
          /\ i < j
          /\ raised[i]
          /\ ~raised[j]
          /\ consistency_report.claim_checks[j].verification_result # "error"

\* C4: in every returned report checked_claims is the length of claim_checks,
\* there is one result per extracted claim, and the i-th result carries the
\* claim_text and claim_type of the i-th extracted claim
C4_OneResultPerClaimInOrder ==
    pc = "returned" =>
        LET checks == consistency_report.claim_checks IN
        /\ consistency_report.checked_claims = Len(checks)
        /\ Len(checks) = Len(factual_claims)
        /\ \A i \in 1..Len(checks) :
              /\ checks[i].claim_text = factual_claims[i].claim_text
              /\ checks[i].claim_type = factual_claims[i].claim_type

C4_Witness ==
    /\ pc = "returned"
    /\ consistency_report.checked_claims = 2
    /\ factual_claims[1].claim_text # factual_claims[2].claim_text
    /\ factual_claims[1].claim_type # factual_claims[2].claim_type
    /\ raised[1]

\* the sentence would be a claim: not a header, not a disclaimer or note, and
\* some detector matches
BeginsWithHash(s) == Len(s) > 0 /\ s[1] = "#"

MentionsDisclaimer(s) ==
    \/ contains(<<"d","i","s","c","l","a","i","m","e","r">>, lower(s))
    \/ contains(<<"n","o","t","e",":">>, lower(s))

Detected(s) ==
    \/ price_search(s)
    \/ percentage_search(s)
    \/ date_search(s)
    \/ any_keyword(trend_keywords, s)
    \/ any_keyword(volatility_keywords, s)
    \/ any_keyword(comparison_keywords, s)

Qualifies(s) == ~BeginsWithHash(s) /\ ~MentionsDisclaimer(s) /\ Detected(s)

\* the positions of the qualifying sentences, in increasing order
RECURSIVE QualifyingPositions(_, _)
QualifyingPositions(sentences, i) ==
    IF i > Len(sentences) THEN <<>>
    ELSE IF Qualifies(sentences[i])
         THEN <<i>> \o QualifyingPositions(sentences, i + 1)
         ELSE QualifyingPositions(sentences, i + 1)

\* C5: extract_factual_claims returns at most 15 claims, each with non-empty
\* text and a type of the fixed enumeration of eight claim types
C5_AtMostFifteenTypedClaims ==
    Extracted =>
        /\ Len(factual_claims) <= 15
        /\ Cardinality(ClaimTypes) = 8
        /\ \A i \in 1..Len(factual_claims) :
              /\ factual_claims[i].claim_text # <<>>
              /\ factual_claims[i].claim_type \in ClaimTypes

C5_Witness ==
    /\ pc = "extracted"
    /\ Len(factual_claims) = 15
    /\ Len(QualifyingPositions(narrative.sentences, 1)) > 15

\* C6: the claims returned are the first 15 (or all, if fewer) qualifying
\* sentences of the narrative, in sentence order, one claim per sentence
C6_FirstFifteenInOrder ==
    (Extracted /\ narrative.tokenizable) =>
        LET q == QualifyingPositions(narrative.sentences, 1)
            n == IF Len(q) < 15 THEN Len(q) ELSE 15
        IN  /\ Len(factual_claims) = n
            /\ \A k \in 1..n :
                  factual_claims[k].claim_text = narrative.sentences[q[k]]

C6_Witness ==
    /\ pc = "extracted"
    /\ narrative.tokenizable
    /\ LET q == QualifyingPositions(narrative.sentences, 1) IN
       /\ Len(q) > 15
       /\ q[1] > 1
       /\ narrative.sentences[q[1]] # narrative.sentences[q[Len(q)]]

\* C7: no sentence that begins with '#', and no sentence containing
\* 'disclaimer' or 'note:' in any letter case, is among the extracted claims
C7_NoHeaderNoDisclaimer ==
    Extracted =>
        \A i \in 1..Len(factual_claims) :
            /\ ~BeginsWithHash(factual_claims[i].claim_text)
            /\ ~MentionsDisclaimer(factual_claims[i].claim_text)

C7_Witness ==
    /\ Extracted
    /\ narrative.tokenizable
    /\ \E i, j \in 1..Len(narrative.sentences) :
          /\ BeginsWithHash(narrative.sentences[i])
          /\ Detected(narrative.sentences[i])
          /\ MentionsDisclaimer(narrative.sentences[j])
          /\ Detected(narrative.sentences[j])
          /\ lower(narrative.sentences[j]) # narrative.sentences[j]

\* C8: a claim has the type of the first detector its sentence matches, in the
\* order numeric token, percentage token, ISO date, trend keyword, volatility
\* keyword, comparison keyword; a sentence matching no detector gives no claim
C8_FirstMatchingDetector ==
    Extracted =>
        \A i \in 1..Len(factual_claims) :
            LET s == factual_claims[i].claim_text
                type == factual_claims[i].claim_type
                trend == any_keyword(trend_keywords, s)
            IN  IF price_search(s)
                THEN type = IF trend THEN "price_trend_claim" ELSE "price_claim"
                ELSE IF percentage_search(s)
                THEN type = IF trend THEN "percentage_trend_claim"
                                     ELSE "percentage_claim"
                ELSE IF date_search(s) THEN type = "date_specific_claim"
                ELSE IF trend THEN type = "trend_claim"
                ELSE IF any_keyword(volatility_keywords, s)
                THEN type = "volatility_claim"
                ELSE /\ any_keyword(comparison_keywords, s)
                     /\ type = "comparison_claim"

C8_Witness ==
    /\ Extracted
    /\ \E i \in 1..Len(factual_claims) :
          /\ factual_claims[i].claim_type = "trend_claim"
          /\ any_keyword(comparison_keywords, factual_claims[i].claim_text)

\* C9: every result of verify_claim_against_data, error results included, has
\* a score within [0,1] and one of the six verdicts, and the overall score of
\* a returned report is within [0,1]
C9_ScoresAndVerdictsInRange ==
    /\ \A i \in 1..Len(consistency_checks) :
          /\ consistency_checks[i].consistency_score \in 0..100
          /\ consistency_checks[i].verification_result \in Verdicts
    /\ pc = "returned" =>
          /\ 0 <= consistency_score.num
          /\ consistency_score.num <= 100 * consistency_score.den
          /\ consistency_report.overall_score = consistency_score

C9_Witness ==
    /\ pc = "returned"
    /\ \E i, j \in 1..Len(consistency_checks) :
          /\ consistency_checks[i].verification_result = "error"
          /\ consistency_checks[j].consistency_score = 90

\* C10: extract_factual_claims never raises to its caller; on an internal
\* fault it returns no claim, and check_narrative_consistency then returns a
\* report with checked_claims 0, empty claim_checks and overall_score 0.0
C10_ExtractionFaultGivesEmptyReport ==
    /\ pc # "raised"
    /\ (Extracted /\ ~narrative.tokenizable) => factual_claims = <<>>
    /\ (pc = "returned" /\ ~narrative.tokenizable) =>
          /\ consistency_report.checked_claims = 0
          /\ consistency_report.claim_checks = <<>>
          /\ consistency_report.overall_score.num = 0
          /\ consistency_score.num = 0

C10_Witness ==
    /\ pc = "returned"
    /\ ~narrative.tokenizable
    /\ consistency_report.checked_claims = 0

\* the direct call of verify_claim_against_data returned without a raise in
\* its try body
Verified == pc = "verified" /\ ~raised[1]

\* the result of the direct call has this score and verdict
ResultIs(score, verdict) ==
    /\ consistency_checks[1].consistency_score = score
    /\ consistency_checks[1].verification_result = verdict

\* lo <= v <= hi for the quotient v; lo and hi are quotients too
Between(lo, v, hi) ==
    /\ lo.num * v.den <= v.num * lo.den
    /\ v.num * hi.den <= hi.num * v.den

\* x hundredths times tenths/10, as a quotient in units
Scaled(x, tenths) == [num |-> x * tenths, den |-> 1000]

\* C11: a price or price_trend claim with a single numeric token v and price
\* range [min, max] is 0.9 verified if min*0.9 <= v <= max*1.1, else 0.7
\* partially verified if min*0.7 <= v <= max*1.3, else 0.2 contradicted
C11_PriceBands ==
    (/\ Verified
     /\ factual_claims[1].claim_type \in {"price_claim", "price_trend_claim"}
     /\ Len(findall_numbers(factual_claims[1].claim_text, 1)) = 1) =>
        LET v == float(findall_numbers(factual_claims[1].claim_text, 1)[1])
            min == col_min(financial_data.rows, "Low")
            max == col_max(financial_data.rows, "High")
        IN  IF Between(Scaled(min, 9), v, Scaled(max, 11))
            THEN ResultIs(90, "verified")
            ELSE IF Between(Scaled(min, 7), v, Scaled(max, 13))
            THEN ResultIs(70, "partially verified")
            ELSE ResultIs(20, "contradicted")

C11_Witness ==
    /\ Verified
    /\ factual_claims[1].claim_type = "price_claim"
    /\ Len(findall_numbers(factual_claims[1].claim_text, 1)) = 1
    /\ ResultIs(70, "partially verified")

\* |x| for a quotient with a positive denominator
AbsQ(x) == [num |-> IF x.num < 0 THEN -x.num ELSE x.num, den |-> x.den]

\* x - y for quotients
SubQ(x, y) == [num |-> x.num * y.den - y.num * x.den, den |-> x.den * y.den]

\* x <= n for a quotient with a positive denominator
LeqQ(x, n) == x.num <= n * x.den

\* price_change_pct of a dataset: (last_close - first_close) / first_close * 100
ActualChangePct(d) ==
    [num |-> (d.rows[Len(d.rows)].Close - d.rows[1].Close) * 100,
     den |-> d.rows[1].Close]

\* C12: a percentage or percentage_trend claim with a single percentage token
\* p and d = |p - |price_change_pct|| is 0.95 verified if d <= 2, else 0.7
\* partially verified if d <= 5, else 0.3 contradicted
C12_PercentageBands ==
    (/\ Verified
     /\ factual_claims[1].claim_type \in {"percentage_claim", "percentage_trend_claim"}
     /\ Len(findall_percentages(factual_claims[1].claim_text, 1)) = 1) =>
        LET p == float(findall_percentages(factual_claims[1].claim_text, 1)[1])
            d == AbsQ(SubQ(p, AbsQ(ActualChangePct(financial_data))))
        IN  IF LeqQ(d, 2) THEN ResultIs(95, "verified")
            ELSE IF LeqQ(d, 5) THEN ResultIs(70, "partially verified")
            ELSE ResultIs(30, "contradicted")

C12_Witness ==
    /\ Verified
    /\ factual_claims[1].claim_type = "percentage_trend_claim"
    /\ Len(findall_percentages(factual_claims[1].claim_text, 1)) = 1
    /\ ActualChangePct(financial_data).num < 0
    /\ ResultIs(95, "verified")

\* a <= b on two dates <<year, month, day>>
DateLeq(a, b) == (a[1] * 10000 + a[2] * 100 + a[3]) <= (b[1] * 10000 + b[2] * 100 + b[3])

\* the date <<year, month, day>> an ISO token yyyy-mm-dd writes
DateOf(token) ==
    << IntOf(SubSeq(token, 1, 4)), IntOf(SubSeq(token, 6, 7)), IntOf(SubSeq(token, 9, 10)) >>

\* C13: a date_specific claim with a single ISO date token d is 0.9 verified if
\* date_range.start <= d <= date_range.end, both ends included, and 0.1
\* contradicted otherwise
C13_DateInRange ==
    (/\ Verified
     /\ factual_claims[1].claim_type = "date_specific_claim"
     /\ Len(findall_dates(factual_claims[1].claim_text, 1)) = 1) =>
        LET d == DateOf(findall_dates(factual_claims[1].claim_text, 1)[1])
            rows == financial_data.rows
        IN  IF /\ \E i \in 1..Len(rows) : DateLeq(rows[i].Date, d)
               /\ \E i \in 1..Len(rows) : DateLeq(d, rows[i].Date)
            THEN ResultIs(90, "verified")
            ELSE ResultIs(10, "contradicted")

C13_Witness ==
    /\ Verified
    /\ factual_claims[1].claim_type = "date_specific_claim"
    /\ Len(findall_dates(factual_claims[1].claim_text, 1)) = 1
    /\ \E i \in 1..Len(financial_data.rows) :
          DateOf(findall_dates(factual_claims[1].claim_text, 1)[1])
              = financial_data.rows[i].Date
    /\ ResultIs(90, "verified")

\* C14: a trend claim is 0.9 verified exactly when its text has an uptrend
\* keyword and last_close > first_close, or a downtrend keyword and
\* last_close < first_close; otherwise, last_close = first_close included, it
\* is 0.1 contradicted
C14_TrendMatchesDirection ==
    (Verified /\ factual_claims[1].claim_type = "trend_claim") =>
        LET text == factual_claims[1].claim_text
            first_close == financial_data.rows[1].Close
            last_close == financial_data.rows[Len(financial_data.rows)].Close
        IN  IF \/ any_keyword(uptrend_words, text) /\ last_close > first_close
               \/ any_keyword(downtrend_words, text) /\ last_close < first_close
            THEN ResultIs(90, "verified")
            ELSE ResultIs(10, "contradicted")

\* the last value of the Volatility_20d column is present
VolatilityAvailable(d) ==
    /\ "Volatility_20d" \in d.columns
    /\ ~d.rows[Len(d.rows)].Volatility_20d.isna

\* the last Volatility_20d value as a percentage is above 2.0
VolatilityAboveTwoPercent(d) == d.rows[Len(d.rows)].Volatility_20d.v > 200

\* C15: a volatility claim is, when volatility_pct is available, 0.9 verified
\* if its text has a high-volatility keyword and volatility_pct > 2.0 or a
\* low-volatility keyword and volatility_pct <= 2.0, and 0.2 contradicted
\* otherwise; when volatility_pct is unavailable it is 0.5 unverified
C15_VolatilityThreshold ==
    (Verified /\ factual_claims[1].claim_type = "volatility_claim") =>
        LET text == factual_claims[1].claim_text
            high == any_keyword(high_volatility_words, text)
            low == any_keyword(low_volatility_words, text)
        IN  IF ~VolatilityAvailable(financial_data)
            THEN ResultIs(50, "unverified")
            ELSE IF \/ high /\ VolatilityAboveTwoPercent(financial_data)
                    \/ low /\ ~VolatilityAboveTwoPercent(financial_data)
            THEN ResultIs(90, "verified")
            ELSE ResultIs(20, "contradicted")

C15_Witness ==
    /\ Verified
    /\ factual_claims[1].claim_type = "volatility_claim"
    /\ VolatilityAvailable(financial_data)
    /\ financial_data.rows[Len(financial_data.rows)].Volatility_20d.v = 200
    /\ any_keyword(low_volatility_words, factual_claims[1].claim_text)
    /\ ResultIs(90, "verified")

\* C16: a comparison claim is 0.7 partially verified exactly when its compound
\* score is > 0.1 and price_change_pct > 0, or its compound score is < -0.1
\* and price_change_pct < 0; otherwise, a neutral claim and
\* price_change_pct = 0 included, it is 0.3 partially contradicted
C16_ComparisonSentiment ==
    (Verified /\ factual_claims[1].claim_type = "comparison_claim") =>
        LET compound == polarity[1].compound
            change == ActualChangePct(financial_data)
        IN  /\ polarity[1].called
            /\ IF \/ compound > 10 /\ change.num > 0
                  \/ compound < -10 /\ change.num < 0
               THEN ResultIs(70, "partially verified")
               ELSE ResultIs(30, "partially contradicted")

\* the report is a dict that has the key overall_score
HasOverallScore(report) ==
    /\ report # None
    /\ "overall_score" \in DOMAIN report

\* C18: compute_consistency_score returns the overall_score of the report when
\* the report has one and 0.0 when the report is None, empty or has none; for
\* a report returned by check_narrative_consistency it is the score returned
\* with the report
C18_ComputeReturnsOverallScore ==
    /\ pc = "computed" =>
          IF HasOverallScore(consistency_report)
          THEN consistency_score = consistency_report.overall_score
          ELSE consistency_score.num = 0
    /\ pc = "returned" =>
          compute_consistency_score(consistency_report) = consistency_score

C18_Witness ==
    /\ pc = "computed"
    /\ consistency_report # None
    /\ DOMAIN consistency_report # {}
    /\ ~HasOverallScore(consistency_report)
    /\ consistency_score.num = 0

\* the value of the latest row of the column that holds one, NaN when no row
\* holds a value
LatestNonMissing(rows, col) ==
    LET holding == {i \in 1..Len(rows) : ~rows[i][col].isna}
    IN  IF holding = {} THEN NaN
        ELSE rows[CHOOSE i \in holding : \A j \in holding : j <= i][col]

\* some claim of the call has been verified against a dataset whose
\* statistics can be derived
VerifiedAgainstData ==
    /\ financial_data # None
    /\ consistency_checks # <<>>
    /\ \E k \in 1..Len(raised) : ~raised[k]

\* C19: the volatility and moving-average reference values are the latest
\* non-missing values of their columns (the volatility scaled to percent), and
\* are absent only when the column is absent or holds no value at all
C19_LatestNonMissingValue ==
    VerifiedAgainstData =>
        LET d == financial_data
            m == metrics(d)
            latest_vol == LatestNonMissing(d.rows, "Volatility_20d")
        IN  /\ m.volatility =
                  IF "Volatility_20d" \in d.columns /\ ~latest_vol.isna
                  THEN Value(latest_vol.v * 100) ELSE NaN
            /\ m.ma_20 =
                  IF "MA_20" \in d.columns
                  THEN LatestNonMissing(d.rows, "MA_20") ELSE NaN
            /\ m.ma_50 =
                  IF "MA_50" \in d.columns
                  THEN LatestNonMissing(d.rows, "MA_50") ELSE NaN

\* C20: within one call of check_narrative_consistency the reference
\* statistics are derived from the dataset exactly once, however many claims
\* have been verified
C20_StatisticsDerivedOnce ==
    (/\ pc \in {"verify", "returned"}
     /\ consistency_checks # <<>>
     /\ \A k \in 1..Len(raised) : ~raised[k])
    => summaries = 1

\* the band of one numeric token v against the price range of the dataset
PriceBand(v, d) ==
    LET min == col_min(d.rows, "Low")
        max == col_max(d.rows, "High")
    IN  IF Between(Scaled(min, 9), v, Scaled(max, 11)) THEN 90
        ELSE IF Between(Scaled(min, 7), v, Scaled(max, 13)) THEN 70
        ELSE 20

\* a direct call has verified a price or price_trend claim with several
\* numeric tokens
SeveralNumbersVerified ==
    /\ Verified
    /\ factual_claims[1].claim_type \in {"price_claim", "price_trend_claim"}
    /\ Len(findall_numbers(factual_claims[1].claim_text, 1)) > 1

\* C21 as stated: the result of a price or price_trend claim with several
\* numeric tokens is the band of its first numeric token
C21_FirstTokenDecides ==
    SeveralNumbersVerified =>
        LET numbers == findall_numbers(factual_claims[1].claim_text, 1)
        IN  /\ consistency_checks[1].consistency_score
                  = PriceBand(float(numbers[1]), financial_data)
            /\ consistency_checks[1].explanation.token = numbers[1]

\* C21 amended: processing stops at the first numeric token whose band is 0.9
\* or 0.7; a 0.2 outcome does not stop it, so the result is the band of the
\* first token that is not 0.2, and 0.2 from the last token when every token
\* is 0.2
C21_FirstTokenInBandDecides ==
    SeveralNumbersVerified =>
        LET numbers == findall_numbers(factual_claims[1].claim_text, 1)
            inband == {i \in 1..Len(numbers) :
                          PriceBand(float(numbers[i]), financial_data) # 20}
            stop == IF inband = {} THEN Len(numbers)
                    ELSE CHOOSE i \in inband : \A j \in inband : i <= j
        IN  /\ consistency_checks[1].consistency_score
                  = PriceBand(float(numbers[stop]), financial_data)
            /\ consistency_checks[1].explanation.token = numbers[stop]

C21_Witness ==
    /\ SeveralNumbersVerified
    /\ PriceBand(float(findall_numbers(factual_claims[1].claim_text, 1)[1]),
                 financial_data) = 20
    /\ ResultIs(90, "verified")

\* the tokens the rule of the claim's type reads from its text
TokensOf(claim) ==
    IF claim.claim_type \in {"price_claim", "price_trend_claim"}
    THEN findall_numbers(claim.claim_text, 1)
    ELSE IF claim.claim_type \in {"percentage_claim", "percentage_trend_claim"}
    THEN findall_percentages(claim.claim_text, 1)
    ELSE findall_dates(claim.claim_text, 1)

\* the verdict of one token of the claim against the dataset
TokenVerdict(claim, token, d) ==
    IF claim.claim_type \in {"price_claim", "price_trend_claim"}
    THEN CASE PriceBand(float(token), d) = 90 -> "verified"
           [] PriceBand(float(token), d) = 70 -> "partially verified"
           [] OTHER -> "contradicted"
    ELSE IF claim.claim_type \in {"percentage_claim", "percentage_trend_claim"}
    THEN LET diff == AbsQ(SubQ(float(token), AbsQ(ActualChangePct(d))))
         IN  IF LeqQ(diff, 2) THEN "verified"
             ELSE IF LeqQ(diff, 5) THEN "partially verified"
             ELSE "contradicted"
    ELSE IF /\ \E i \in 1..Len(d.rows) : DateLeq(d.rows[i].Date, DateOf(token))
            /\ \E i \in 1..Len(d.rows) : DateLeq(DateOf(token), d.rows[i].Date)
         THEN "verified"
         ELSE "contradicted"

\* a direct call has verified a price, percentage or date claim with several
\* tokens of its kind
SeveralTokensVerified ==
    /\ Verified
    /\ factual_claims[1].claim_type \in
           {"price_claim", "price_trend_claim", "percentage_claim",
            "percentage_trend_claim", "date_specific_claim"}
    /\ Len(TokensOf(factual_claims[1])) > 1

\* C26: for price, percentage and date claims with several tokens the verdict
\* is that of the first token, in text order, that is not contradicted; the
\* claim is contradicted only if every token is; a later verified token never
\* overrides an earlier partially verified one
C26_LoopStopsOnVerified ==
    SeveralTokensVerified =>
        LET claim == factual_claims[1]
            tokens == TokensOf(claim)
            verdict == consistency_checks[1].verification_result
            v(i) == TokenVerdict(claim, tokens[i], financial_data)
            passing == {i \in 1..Len(tokens) : v(i) # "contradicted"}
        IN  /\ (verdict = "contradicted") <=> (passing = {})
            /\ \A i \in passing :
                  (\A j \in passing : i <= j) => verdict = v(i)
            /\ \A i, j \in passing :
                  (i < j /\ v(i) = "partially verified" /\ v(j) = "verified"
                     /\ \A k \in 1..(i - 1) : v(k) = "contradicted")
                  => verdict = "partially verified"

C26_Witness ==
    /\ SeveralTokensVerified
    /\ factual_claims[1].claim_type = "percentage_claim"
    /\ TokenVerdict(factual_claims[1], TokensOf(factual_claims[1])[1],
                    financial_data) = "partially verified"
    /\ TokenVerdict(factual_claims[1], TokensOf(factual_claims[1])[2],
                    financial_data) = "verified"
    /\ ResultIs(70, "partially verified")

TokenTypes ==
    {"price_claim", "price_trend_claim", "percentage_claim",
     "percentage_trend_claim", "date_specific_claim"}

\* no rule of the verifier fires for the claim on the dataset
NoRuleFires(claim, d) ==
    \/ claim.claim_type \in TokenTypes /\ TokensOf(claim) = <<>>
    \/ claim.claim_type = "volatility_claim" /\ ~VolatilityAvailable(d)
    \/ claim.claim_type \notin ClaimTypes

\* C22: the default 0.5 'unverified' is returned only when no rule fires (no
\* token of the matching kind, volatility unavailable, or an unrecognised
\* type); an extracted price or price_trend claim has a numeric token, so its
\* result is never the default
C22_DefaultOnlyWhenNoRuleFires ==
    /\ Verified =>
          (ResultIs(50, "unverified")
             <=> NoRuleFires(factual_claims[1], financial_data))
    /\ Extracted =>
          \A i \in 1..Len(factual_claims) :
              factual_claims[i].claim_type \in {"price_claim", "price_trend_claim"}
                  => findall_numbers(factual_claims[i].claim_text, 1) # <<>>
    /\ pc \in {"verify", "returned"} =>
          \A i \in 1..Len(consistency_checks) :
              consistency_checks[i].claim_type \in {"price_claim", "price_trend_claim"}
                  => consistency_checks[i].verification_result # "unverified"

C22_Witness ==
    /\ Verified
    /\ factual_claims[1].claim_type = "percentage_claim"
    /\ findall_percentages(factual_claims[1].claim_text, 1) = <<>>
    /\ findall_numbers(factual_claims[1].claim_text, 1) # <<>>
    /\ ResultIs(50, "unverified")

\* C23: the narrative, the dataset and the claims handed to the verifier are
\* left unchanged by every step of a call, each result carries the text and
\* type of its claim, and once the caller has the result nothing of the call
\* (claims, statistics, results) is retained for the next invocation
C23_InputsUnchangedNothingRetained ==
    [][/\ (pc # "idle" /\ pc' # "idle") =>
              /\ narrative' = narrative
              /\ financial_data' = financial_data
       /\ (pc \in {"verify", "verified"} /\ pc' # "idle") =>
              factual_claims' = factual_claims
       /\ \A i \in 1..Len(consistency_checks') :
              /\ consistency_checks'[i].claim_text = factual_claims'[i].claim_text
              /\ consistency_checks'[i].claim_type = factual_claims'[i].claim_type
       /\ pc' = "idle" =>
              /\ factual_claims' = <<>>
              /\ consistency_checks' = <<>>
              /\ summaries' = 0
              /\ consistency_report' = None
              /\ consistency_score' = None]_vars

C23_Witness ==
    /\ pc = "returned"
    /\ narrative # None
    /\ Len(factual_claims) = 2
    /\ Len(consistency_checks) = 2
    /\ ~raised[1] /\ ~raised[2]

\* the report is None, empty, or has no claim_checks
NoClaimChecks(report) ==
    \/ report = None
    \/ DOMAIN report = {}
    \/ "claim_checks" \notin DOMAIN report

ScoreOf(claim) ==
    IF "consistency_score" \in DOMAIN claim THEN claim.consistency_score ELSE 100

TextOf(claim) ==
    IF "claim_text" \in DOMAIN claim THEN claim.claim_text ELSE <<>>

\* the claim is one the highlighter is to wrap
ToHighlight(claim) == TextOf(claim) # <<>> /\ ScoreOf(claim) < 90

\* the text of the claim wrapped in a span of the colour, as it is written
\* into the narrative
Wrapped(claim, colour) ==
    <<"\""," ","s","t","y","l","e","=","\"","b","a","c","k","g","r","o","u","n","d","-","c","o","l","o","r",":"," ">> \o colour \o <<";","\"",">">> \o TextOf(claim) \o <<"<","/","s","p","a","n",">">>

\* no claim text of the report is part of another claim's text
IndependentTexts(checks) ==
    \A i, j \in 1..Len(checks) :
        i # j => ~contains(TextOf(checks[i]), TextOf(checks[j]))

\* C24: highlight_inconsistencies returns the narrative unchanged when the
\* report is None, empty or has no claim_checks; otherwise it replaces the
\* text of exactly the claims with a non-empty text and a score < 0.9, in
\* ascending score order, by a span that is red for score < 0.5, yellow for
\* 0.5 <= score < 0.75 and green for 0.75 <= score < 0.9; the text of a claim
\* scored >= 0.9 is never wrapped
C24_HighlightBands ==
    pc = "highlighted" =>
        IF NoClaimChecks(consistency_report)
        THEN highlighted_narrative = narrative /\ replaced = <<>>
        ELSE LET checks == consistency_report.claim_checks IN
             /\ \A i \in 1..Len(replaced) : ToHighlight(replaced[i])
             /\ \A i, j \in 1..Len(replaced) :
                    i < j => ScoreOf(replaced[i]) <= ScoreOf(replaced[j])
             /\ Len(replaced)
                    = Cardinality({k \in 1..Len(checks) : ToHighlight(checks[k])})
             /\ \A k \in 1..Len(checks) :
                    ToHighlight(checks[k])
                        => \E i \in 1..Len(replaced) : replaced[i] = checks[k]
             /\ replaced = <<>> =>
                    highlighted_narrative = <<"<","p",">">> \o narrative \o <<"<","/","p",">">>
             /\ IndependentTexts(checks) =>
                    \A k \in 1..Len(checks) :
                        LET c == checks[k] IN
                        contains(TextOf(c), narrative) /\ TextOf(c) # <<>> =>
                            /\ contains(Wrapped(c, Red), highlighted_narrative)
                                   <=> ScoreOf(c) < 50
                            /\ contains(Wrapped(c, Yellow), highlighted_narrative)
                                   <=> (50 <= ScoreOf(c) /\ ScoreOf(c) < 75)
                            /\ contains(Wrapped(c, Green), highlighted_narrative)
                                   <=> (75 <= ScoreOf(c) /\ ScoreOf(c) < 90)

C24_Witness ==
    /\ pc = "highlighted"
    /\ ~NoClaimChecks(consistency_report)
    /\ Len(consistency_report.claim_checks) = 2
    /\ IndependentTexts(consistency_report.claim_checks)
    /\ ScoreOf(consistency_report.claim_checks[1]) = 90
    /\ ScoreOf(consistency_report.claim_checks[2]) = 50
    /\ Len(replaced) = 1
    /\ contains(Wrapped(replaced[1], Yellow), highlighted_narrative)

\* the types whose rules read percentage or date tokens
PercentageOrDateTypes ==
    {"percentage_claim", "percentage_trend_claim", "date_specific_claim"}

\* C25: extract_factual_claims never returns a claim of type percentage,
\* percentage_trend or date_specific: a sentence with a percentage or ISO
\* date token has a numeric token and is typed price or price_trend, so no
\* result of check_narrative_consistency comes from the percentage or date
\* rule
C25_NoPercentageOrDateClaims ==
    /\ Extracted =>
          \A i \in 1..Len(factual_claims) :
              /\ factual_claims[i].claim_type \notin PercentageOrDateTypes
              /\ (\/ findall_percentages(factual_claims[i].claim_text, 1) # <<>>
                  \/ findall_dates(factual_claims[i].claim_text, 1) # <<>>)
                 => /\ findall_numbers(factual_claims[i].claim_text, 1) # <<>>
                    /\ factual_claims[i].claim_type
                           \in {"price_claim", "price_trend_claim"}
    /\ pc \in {"verify", "returned"} =>
          \A i \in 1..Len(consistency_checks) :
              /\ consistency_checks[i].claim_type \notin PercentageOrDateTypes
              /\ consistency_checks[i].consistency_score # 95

C25_Witness ==
    /\ pc = "returned"
    /\ \E i, j \in 1..Len(consistency_checks) :
          /\ findall_percentages(consistency_checks[i].claim_text, 1) # <<>>
          /\ consistency_checks[i].claim_type = "price_trend_claim"
          /\ findall_dates(consistency_checks[j].claim_text, 1) # <<>>
          /\ consistency_checks[j].claim_type = "price_claim"
          /\ ~raised[i] /\ ~raised[j]

\* the text has a keyword of the uptrend list, of the downtrend list
ClaimsUp(text) == any_keyword(uptrend_words, text)

ClaimsDown(text) == any_keyword(downtrend_words, text)

\* C27: a trend claim whose text has both an uptrend and a downtrend keyword
\* is 0.9 verified for every dataset, and one whose text has neither is 0.1
\* contradicted for every dataset; this holds for extracted trend claims too
C27_TrendBothOrNeither ==
    /\ (Verified /\ factual_claims[1].claim_type = "trend_claim") =>
          LET text == factual_claims[1].claim_text IN
          /\ (ClaimsUp(text) /\ ClaimsDown(text)) => ResultIs(90, "verified")
          /\ (~ClaimsUp(text) /\ ~ClaimsDown(text)) => ResultIs(10, "contradicted")
    /\ pc \in {"verify", "returned"} =>
          \A i \in 1..Len(consistency_checks) :
              (/\ ~raised[i]
               /\ consistency_checks[i].claim_type = "trend_claim"
               /\ ~ClaimsUp(consistency_checks[i].claim_text)
               /\ ~ClaimsDown(consistency_checks[i].claim_text))
              => consistency_checks[i].consistency_score = 10

C27_Witness ==
    /\ Verified
    /\ factual_claims[1].claim_type = "trend_claim"
    /\ ClaimsUp(factual_claims[1].claim_text)
    /\ ClaimsDown(factual_claims[1].claim_text)
    /\ financial_data.rows[Len(financial_data.rows)].Close
           > financial_data.rows[1].Close
    /\ ResultIs(90, "verified")

\* C28: in every result of verify_claim_against_data the verdict determines
\* the scores: error iff 0.0, unverified iff 0.5, partially verified iff 0.7,
\* verified only with 0.9 or 0.95, partially contradicted only with 0.3,
\* contradicted only with 0.1, 0.2 or 0.3; no other score is produced
C28_VerdictDeterminesScore ==
    \A i \in 1..Len(consistency_checks) :
        LET score == consistency_checks[i].consistency_score
            verdict == consistency_checks[i].verification_result
        IN  /\ score \in {0, 10, 20, 30, 50, 70, 90, 95}
            /\ (verdict = "error") <=> (score = 0)
            /\ (verdict = "unverified") <=> (score = 50)
            /\ (verdict = "partially verified") <=> (score = 70)
            /\ (verdict = "verified") => score \in {90, 95}
            /\ (verdict = "partially contradicted") => score = 30
            /\ (verdict = "contradicted") => score \in {10, 20, 30}

C28_Witness ==
    /\ Verified
    /\ factual_claims[1].claim_type = "comparison_claim"
    /\ ResultIs(70, "partially verified")

\* the application has rendered its tabs for a loaded dataset
TabsRendered == pc = "app" /\ tab3 # None

\* C29: the Consistency Analysis tab shows the gauge, the report and the
\* highlighted narrative only when the stored report is non-empty and the
\* stored score is non-zero; after a successful generation whose overall
\* score is 0.0 it shows the 'Generate a narrative first' message although a
\* report is stored
C29_TabHiddenForZeroScore ==
    TabsRendered =>
        /\ (tab3.shown = "analysis") <=>
               /\ session_state.consistency_report # None
               /\ DOMAIN session_state.consistency_report # {}
               /\ session_state.consistency_score # None
               /\ session_state.consistency_score.num # 0
        /\ tab3.shown = "analysis" =>
               /\ tab3.gauge = session_state.consistency_score
               /\ tab3.json = session_state.consistency_report
        /\ (/\ generation # None
            /\ generation.completed
            /\ generation.invoked_checker
            /\ session_state.consistency_score.num = 0)
           => /\ tab3.shown = "info"
              /\ session_state.consistency_report # None

C29_Witness ==
    /\ TabsRendered
    /\ generation # None
    /\ generation.completed
    /\ generation.invoked_checker
    /\ session_state.consistency_report # None
    /\ session_state.consistency_report.checked_claims = 2
    /\ session_state.consistency_score.num = 0
    /\ tab3.shown = "info"

\* the report the application stores for a dataset that is not price data
FixedReport ==
    [overall_score |-> [num |-> 95, den |-> 1],
     checked_claims |-> 0,
     claim_checks |-> <<>>]

\* overall_score is the mean of the scores of claim_checks, 0.0 when empty
MeanRelation(report) ==
    IF report.claim_checks = <<>>
    THEN report.overall_score.num = 0
    ELSE report.overall_score.num * Len(report.claim_checks)
             = TotalScore(report.claim_checks) * report.overall_score.den

\* C30: for a dataset that is not price data the handler never invokes
\* check_narrative_consistency and stores the fixed report (0.95, 0 claims,
\* no claim_checks), which does not satisfy the mean relation; a report
\* stored from check_narrative_consistency satisfies it
C30_FixedReportForOtherData ==
    (pc = "app" /\ generation # None) =>
        /\ ~generation.is_financial_data => ~generation.invoked_checker
        /\ (~generation.is_financial_data /\ generation.completed) =>
               /\ session_state.consistency_report = FixedReport
               /\ session_state.consistency_score = FixedReport.overall_score
               /\ ~MeanRelation(session_state.consistency_report)
        /\ (generation.invoked_checker /\ generation.completed) =>
               MeanRelation(session_state.consistency_report)

C30_Witness ==
    /\ pc = "app"
    /\ generation # None
    /\ ~generation.is_financial_data
    /\ generation.completed
    /\ session_state.consistency_report.claim_checks = <<>>
    /\ session_state.consistency_report.overall_score.num = 95
    /\ tab3.shown = "analysis"

====
